---- MODULE Spec2Model ----
(***************************************************************************)
(* A model of the biohack-debunker verification pipeline:                  *)
(*   - the deterministic verdict policy of the analysis service            *)
(*     (analysis_service/chains/claim_analyzer.py, analysis_service/       *)
(*     schemas.py);                                                        *)
(*   - the Redis-backed and the in-memory rate limiter of the research     *)
(*     service (research_service/pubmed_client.py);                        *)
(*   - the LLM client with its retries and route fallbacks                 *)
(*     (analysis_service/llm_client.py);                                   *)
(*   - the chunking of a transcript and the extraction of claims           *)
(*     (analysis_service/chains/claim_extractor.py, analysis_service/      *)
(*     main.py), and the judgment of the claims (main.py);                 *)
(*   - the gateway: the analyses table, the POST handler with its          *)
(*     background run of the pipeline, and the worker with its queue and   *)
(*     dead-letter list (api_gateway/routers/analysis.py, api_gateway/     *)
(*     services/orchestrator.py, api_gateway/worker.py), the GET handler   *)
(*     of a client that polls, and the rate limit of the gateway           *)
(*     (api_gateway/middleware/rate_limit.py);                             *)
(*   - the removal of the overlap of caption cues                          *)
(*     (transcription_service/transcript_parser.py);                       *)
(*   - the cache of the research service (research_service/main.py,        *)
(*     research_service/vector_store.py).                                  *)
(* Each part has its own specification; the variables of the other parts   *)
(* stay at their idle values.                                              *)
(*                                                                         *)
(* Conventions.                                                            *)
(*   A Python value that may be None is a sequence of length at most one:  *)
(*   <<>> is None and <<x>> is x.                                          *)
(*   A Python text is a sequence of pieces (TLA+ strings): a piece is a    *)
(*   word or one separator character, and the text is the concatenation of *)
(*   its pieces.  strip(), lower() and re.sub() act on the pieces.         *)
(*   A confidence is an integer number of hundredths (0.55 is 55).         *)
(*   Instants and durations of the limiter are integer milliseconds.       *)
(***************************************************************************)
EXTENDS Integers, Sequences, FiniteSets, TLC

VARIABLES
    call,       \* the function invocation under way: [fn, args, done, ret, again]
    max_rps,    \* _RedisRateLimiter._max_rps, shared by every limiter on the key
    clock,      \* the wall clock, time.time() * 1000
    store,      \* the Redis key "pubmed:rps": None, or its value and expiry instant
    callers,    \* each caller of acquire(): where it stands and what it holds
    monotonic,  \* time.monotonic() of the process that owns a _RateLimiter
    _lock,      \* _RateLimiter._lock: TRUE while a coroutine holds it
    _next_time, \* _RateLimiter._next_time
    coroutines, \* each coroutine calling _RateLimiter.acquire()
    llm,        \* the LLMClient object
    generate,   \* the generate_json call under way: its locals and its outcome
    posts,      \* the HTTP requests sent so far: the index of the route of each
    analyze,    \* the /analyze request under way: the request and where the handler stands
    extraction, \* the extract_claims call: semaphore, collected, outcome
    tasks,      \* the _extract_chunk task of each chunk
    processing, \* the analyze handler from line 169 on: claims, semaphore, warnings, outcome
    claim_tasks, \* the process_claim task of each claim
    analyses,   \* the rows of the table analyses: the row of analysis id is analyses[id]
    queue,      \* the Redis list of AnalysisQueue._queue_name
    dlq,        \* the Redis list of AnalysisQueue._dlq_name
    worker,     \* the AnalysisWorker process: its settings, where it stands, the job it holds
    executions, \* how often run_analysis was called for each analysis
    background, \* the background tasks of the POST handler, each a run_analysis call
    responses,  \* the answers of POST /api/v1/analysis, in the order they were given
    claim_rows, \* the rows of the table claims, each with its rows of the table sources
    polls,      \* the GET /api/v1/analysis/{id} requests, each with where its handler stands
    settings,   \* the gateway's Settings: rate_limit_requests, rate_limit_window
    rate_keys,  \* the Redis keys "rate:<identifier>": None, or the counter and its expiry
    keys_made,  \* how many times the key of each identifier came into being
    limited,    \* the requests that went through the limiter dependency, each with its outcome
    time,       \* time.time() of the research service, in seconds
    cache,      \* the CacheStore of the research service: ttl_seconds and _store
    research    \* the POST /research requests, each with where its handler stands

limiterVars == <<max_rps, clock, store, callers>>
memoryVars == <<monotonic, _lock, _next_time, coroutines>>
llmVars == <<llm, generate, posts>>
extractVars == <<analyze, extraction, tasks>>
processVars == <<processing, claim_tasks>>
gatewayVars == <<analyses, queue, dlq, worker, executions, background, responses,
                 claim_rows, polls>>
rateVars == <<settings, rate_keys, keys_made, limited>>
researchVars == <<time, cache, research>>
vars == <<call, limiterVars, memoryVars, llmVars, extractVars, processVars, gatewayVars,
          rateVars, researchVars>>

None == <<>>
Some(x) == <<x>>

(***************************************************************************)
(* Python text primitives                                                  *)
(***************************************************************************)

\* str.lower() on one piece: the capitalised words of the vocabulary
CapitalOf ==
    [w \in {"supported", "partially", "partial", "support", "partly",
            "unsupported", "not", "insufficient", "evidence", "by", "no",
            "found", "supporting", "refuted", "true",
            "high", "moderate", "low", "very", "animal", "in", "vitro", "rct",
            "meta", "analysis", "systematic", "review", "randomized", "controlled",
            "trial", "clinical", "observational", "study", "case", "report",
            "techniques", "mice", "humans", "journal", "article", "compa",
            "exercise", "zinc"} |->
        CASE w = "supported" -> "Supported"
          [] w = "partially" -> "Partially"
          [] w = "partial" -> "Partial"
          [] w = "support" -> "Support"
          [] w = "partly" -> "Partly"
          [] w = "unsupported" -> "Unsupported"
          [] w = "not" -> "Not"
          [] w = "insufficient" -> "Insufficient"
          [] w = "evidence" -> "Evidence"
          [] w = "by" -> "By"
          [] w = "no" -> "No"
          [] w = "found" -> "Found"
          [] w = "supporting" -> "Supporting"
          [] w = "refuted" -> "Refuted"
          [] w = "true" -> "True"
          [] w = "high" -> "High"
          [] w = "moderate" -> "Moderate"
          [] w = "low" -> "Low"
          [] w = "very" -> "Very"
          [] w = "animal" -> "Animal"
          [] w = "in" -> "In"
          [] w = "vitro" -> "Vitro"
          [] w = "rct" -> "RCT"
          [] w = "meta" -> "Meta"
          [] w = "analysis" -> "Analysis"
          [] w = "systematic" -> "Systematic"
          [] w = "review" -> "Review"
          [] w = "randomized" -> "Randomized"
          [] w = "controlled" -> "Controlled"
          [] w = "trial" -> "Trial"
          [] w = "clinical" -> "Clinical"
          [] w = "observational" -> "Observational"
          [] w = "study" -> "Study"
          [] w = "case" -> "Case"
          [] w = "report" -> "Report"
          [] w = "techniques" -> "Techniques"
          [] w = "mice" -> "Mice"
          [] w = "humans" -> "Humans"
          [] w = "journal" -> "Journal"
          [] w = "article" -> "Article"
          [] w = "compa" -> "Compa"
          [] w = "exercise" -> "Exercise"
          [] w = "zinc" -> "Zinc"]

lower_piece(p) ==
    IF \E w \in DOMAIN CapitalOf : CapitalOf[w] = p
    THEN CHOOSE w \in DOMAIN CapitalOf : CapitalOf[w] = p
    ELSE p

\* str.lower()
lower(text) == [i \in 1..Len(text) |-> lower_piece(text[i])]

Whitespace == {" "}

RECURSIVE lstrip(_)
lstrip(text) ==
    IF text # <<>> /\ Head(text) \in Whitespace THEN lstrip(Tail(text)) ELSE text

RECURSIVE rstrip(_)
rstrip(text) ==
    IF text # <<>> /\ text[Len(text)] \in Whitespace
    THEN rstrip(SubSeq(text, 1, Len(text) - 1))
    ELSE text

\* str.strip()
strip(text) == rstrip(lstrip(text))

\* re.sub(r"[\s-]+", "_", text): every maximal run of whitespace and hyphens
\* becomes one underscore
RECURSIVE re_sub_runs(_)
re_sub_runs(text) ==
    IF text = <<>> THEN <<>>
    ELSE IF Head(text) \in Whitespace \cup {"-"}
         THEN IF Len(text) > 1 /\ text[2] \in Whitespace \cup {"-"}
              THEN re_sub_runs(Tail(text))
              ELSE <<"_">> \o re_sub_runs(Tail(text))
         ELSE <<Head(text)>> \o re_sub_runs(Tail(text))

\* the Python string a text denotes
RECURSIVE Join(_)
Join(text) == IF text = <<>> THEN "" ELSE Head(text) \o Join(Tail(text))

\* str(value or ""): None and the empty text are both falsy
str_or_empty(value) == IF value = None THEN <<>> ELSE value[1]

(***************************************************************************)
(* claim_analyzer.py: verdict normalisation                                *)
(***************************************************************************)

CanonicalVerdicts ==
    {"supported", "partially_supported", "unsupported_by_evidence", "no_evidence_found"}

aliases ==
    [k \in {"supported", "partially_supported", "partial_support", "partly_supported",
            "unsupported", "not_supported", "insufficient_evidence",
            "unsupported_by_evidence", "no_evidence", "no_evidence_found",
            "no_supporting_evidence"} |->
        CASE k = "supported" -> "supported"
          [] k \in {"partially_supported", "partial_support", "partly_supported"} ->
                "partially_supported"
          [] k \in {"unsupported", "not_supported", "insufficient_evidence",
                    "unsupported_by_evidence"} -> "unsupported_by_evidence"
          [] k \in {"no_evidence", "no_evidence_found", "no_supporting_evidence"} ->
                "no_evidence_found"]

_normalize_verdict_always_mapped(value, has_sources) ==
    LET raw == lower(strip(str_or_empty(value)))
        normalized == Join(re_sub_runs(raw))
    IN  IF normalized \in DOMAIN aliases
        THEN aliases[normalized]
        ELSE IF has_sources THEN "unsupported_by_evidence" ELSE "no_evidence_found"

_normalize_verdict(value, has_sources) ==
    LET raw == lower(strip(str_or_empty(value)))
        normalized == Join(re_sub_runs(raw))
    IN  IF normalized \in DOMAIN aliases
        THEN IF aliases[normalized] = "unsupported_by_evidence" /\ ~has_sources
             THEN "no_evidence_found"
             ELSE aliases[normalized]
        ELSE IF has_sources THEN "unsupported_by_evidence" ELSE "no_evidence_found"

(***************************************************************************)
(* claim_analyzer.py: evidence classification                              *)
(***************************************************************************)

\* needle in haystack, for texts whose pieces line up with the needle's
Contains(haystack, needle) ==
    \E i \in 1..(Len(haystack) - Len(needle) + 1) :
        SubSeq(haystack, i, i + Len(needle) - 1) = needle

\* " | ".join(tags)
RECURSIVE JoinTags(_)
JoinTags(tags) ==
    IF tags = <<>> THEN <<>>
    ELSE IF Len(tags) = 1 THEN Head(tags)
    ELSE Head(tags) \o <<" ", "|", " ">> \o JoinTags(Tail(tags))

\* the tags _classify_source collects: the non-empty publication types, then the
\* source type, all lower-cased
SourceTags(source) ==
    LET pub == IF source.publication_type = None THEN <<>>
               ELSE SelectSeq(source.publication_type[1], LAMBDA t : t # <<>>)
        own == IF source.source_type = <<>> THEN <<>> ELSE <<source.source_type>>
        all == pub \o own
    IN  [i \in 1..Len(all) |-> lower(all[i])]

_classify_source(source) ==
    LET joined == JoinTags(SourceTags(source))
        has(kw) == Contains(joined, kw)
    IN  IF has(<<"meta", "-", "analysis">>) \/ has(<<"meta", " ", "analysis">>)
            THEN "meta_analysis"
        ELSE IF has(<<"systematic", " ", "review">>) THEN "systematic_review"
        ELSE IF has(<<"randomized", " ", "controlled", " ", "trial">>)
                \/ has(<<"randomised", " ", "controlled", " ", "trial">>) THEN "rct"
        ELSE IF has(<<"randomized">>) \/ has(<<"randomised">>) THEN "rct"
        ELSE IF has(<<"clinical", " ", "trial">>) THEN "clinical_trial"
        ELSE IF has(<<"cohort">>) \/ has(<<"case", "-", "control">>)
                \/ has(<<"case", " ", "control">>) THEN "observational"
        ELSE IF has(<<"cross", "-", "sectional">>) \/ has(<<"observational">>)
            THEN "observational"
        ELSE IF has(<<"case", " ", "report", "s">>) \/ has(<<"case", " ", "report">>)
            THEN "case_report"
        ELSE IF has(<<"in", " ", "vitro">>) \/ has(<<"cell", " ", "line">>)
                \/ has(<<"cell", " ", "culture">>) THEN "in_vitro"
        ELSE IF has(<<"animal", "s">>) \/ has(<<"animal">>) \/ has(<<"rodent">>)
            THEN "animal"
        ELSE IF has(<<"mice">>) \/ has(<<"mouse">>) \/ has(<<"rat">>) THEN "animal"
        ELSE "unknown"

_study_type_rank(study_type) ==
    CASE study_type = "meta_analysis" -> 6
      [] study_type = "systematic_review" -> 5
      [] study_type = "rct" -> 4
      [] study_type = "clinical_trial" -> 3
      [] study_type = "observational" -> 2
      [] study_type = "case_report" -> 1
      [] study_type = "animal" -> 1
      [] study_type = "in_vitro" -> 1
      [] study_type = "unknown" -> 0
      [] OTHER -> 0

_evidence_level_for_type_trial_moderate(study_type) ==
    IF study_type \in {"meta_analysis", "systematic_review", "rct"} THEN "high"
    ELSE IF study_type \in {"observational", "clinical_trial"} THEN "moderate"
    ELSE IF study_type \in {"case_report", "animal", "in_vitro"} THEN "low"
    ELSE "very_low"

_evidence_level_for_type(study_type) ==
    IF study_type \in {"meta_analysis", "systematic_review", "rct", "clinical_trial"}
        THEN "high"
    ELSE IF study_type = "observational" THEN "moderate"
    ELSE IF study_type \in {"case_report", "animal", "in_vitro"} THEN "low"
    ELSE "very_low"

\* the loop of _infer_evidence_classification over sources[i..], carrying the best
\* type found so far
RECURSIVE BestType(_, _, _)
BestType(sources, i, best_type) ==
    IF i > Len(sources) THEN best_type
    ELSE LET study_type == _classify_source(sources[i])
         IN  IF _study_type_rank(study_type) > _study_type_rank(best_type)
             THEN BestType(sources, i + 1, study_type)
             ELSE BestType(sources, i + 1, best_type)

\* returns <<evidence_level, study_type>>
_infer_evidence_classification(sources) ==
    LET best_type == BestType(sources, 1, "unknown")
    IN  <<_evidence_level_for_type(best_type), best_type>>

_has_human_evidence(sources) ==
    \E i \in 1..Len(sources) :
        /\ sources[i].publication_type # None
        /\ \E j \in 1..Len(sources[i].publication_type[1]) :
               Join(lower(strip(sources[i].publication_type[1][j]))) = "humans"

(***************************************************************************)
(* schemas.py: ClaimAnalysis; claim_analyzer.py: the policy pass           *)
(***************************************************************************)

\* the outcome of a call: the value returned, or the exception raised
Returned(value) == [raised |-> "", value |-> <<value>>]
Raised(exception) == [raised |-> exception, value |-> <<>>]

\* the fields the pydantic model declares
ClaimAnalysisFields == {"verdict", "confidence", "explanation", "nuance"}

\* ClaimAnalysis(**kwargs): the model sets no Config, so pydantic drops every
\* keyword that is not a declared field; the object holds the declared ones
ClaimAnalysis(kwargs) ==
    [f \in (DOMAIN kwargs) \cap ClaimAnalysisFields |-> kwargs[f]]

Min(a, b) == IF a < b THEN a ELSE b
Max(a, b) == IF a > b THEN a ELSE b

NonHumanNote ==
    "Evidence is limited to non-human or in vitro studies; human efficacy is unproven."

\* a text is truthy when it is neither None nor empty
Truthy(opt) == opt # None /\ opt[1] # <<>>

\* lines 200-235, for an object that carries every attribute the pass reads
PolicyBody(analysis, sources) ==
    LET evidence_level == IF analysis.evidence_level = None \/ analysis.evidence_level[1] = ""
                          THEN "very_low" ELSE analysis.evidence_level[1]
        study_type == IF analysis.study_type = None \/ analysis.study_type[1] = ""
                      THEN "unknown" ELSE analysis.study_type[1]
        no_sources == sources = <<>>
        \* lines 206-208
        verdict1 == IF no_sources /\ analysis.verdict # "no_evidence_found"
                    THEN "no_evidence_found" ELSE analysis.verdict
        confidence1 == IF no_sources /\ analysis.verdict # "no_evidence_found"
                       THEN Min(analysis.confidence, 20) ELSE analysis.confidence
        \* lines 210-211
        verdict2 == IF ~no_sources /\ verdict1 = "no_evidence_found"
                    THEN "unsupported_by_evidence" ELSE verdict1
        \* lines 213-216
        weak == evidence_level \in {"low", "very_low"}
        verdict3 == IF weak /\ verdict2 = "supported" THEN "partially_supported" ELSE verdict2
        confidence3 == IF weak THEN Min(confidence1, 55) ELSE confidence1
        \* lines 218-226
        non_human == study_type \in {"animal", "in_vitro"} /\ ~_has_human_evidence(sources)
        verdict4 == IF non_human /\ verdict3 \in {"supported", "partially_supported"}
                    THEN "unsupported_by_evidence" ELSE verdict3
        confidence4 == IF non_human THEN Min(confidence3, 40) ELSE confidence3
        nuance4 == IF ~non_human THEN analysis.nuance
                   ELSE IF ~Truthy(analysis.nuance) THEN Some(<<NonHumanNote>>)
                   ELSE IF ~Contains(analysis.nuance[1], <<NonHumanNote>>)
                        THEN Some(strip(analysis.nuance[1] \o <<" ", NonHumanNote>>))
                        ELSE analysis.nuance
    IN  Returned(ClaimAnalysis([verdict |-> verdict4,
                                confidence |-> Max(0, Min(confidence4, 100)),
                                explanation |-> analysis.explanation,
                                nuance |-> nuance4,
                                evidence_level |-> Some(evidence_level),
                                study_type |-> Some(study_type)]))

\* reading an attribute the object does not hold raises AttributeError: line 203
\* reads analysis.evidence_level and line 204 analysis.study_type
_apply_evidence_policy(analysis, sources) ==
    IF {"evidence_level", "study_type"} \subseteq DOMAIN analysis
    THEN PolicyBody(analysis, sources)
    ELSE Raised("AttributeError")

\* _normalize_label: None stays None, a blank text becomes None
_normalize_label(value) ==
    IF value = None THEN None
    ELSE IF Join(lower(strip(value[1]))) = "" THEN None
    ELSE Some(Join(lower(strip(value[1]))))

DefaultExplanation == <<"Insufficient evidence available.">>

\* lines 90-99: the keyword arguments _coerce_analysis hands to ClaimAnalysis
CoerceLocals(data, sources) ==
    LET confidence == IF data.confidence = None \/ data.confidence[1] = 0
                      THEN 50 ELSE data.confidence[1]
        evidence_level == _normalize_label(data.evidence_level)
        study_type == _normalize_label(data.study_type)
        inferred == _infer_evidence_classification(sources)
    IN  [verdict |-> _normalize_verdict(data.verdict, sources # <<>>),
         confidence |-> Max(0, Min(confidence, 100)),
         explanation |-> IF Truthy(data.explanation) THEN strip(data.explanation[1])
                         ELSE DefaultExplanation,
         nuance |-> IF Truthy(data.nuance) THEN Some(strip(data.nuance[1])) ELSE None,
         evidence_level |-> IF evidence_level = None THEN Some(inferred[1])
                            ELSE evidence_level,
         study_type |-> IF study_type = None THEN Some(inferred[2]) ELSE study_type]

_coerce_analysis(data, sources) ==
    _apply_evidence_policy(ClaimAnalysis(CoerceLocals(data, sources)), sources)

(***************************************************************************)
(* pubmed_client.py: _RedisRateLimiter                                     *)
(***************************************************************************)

MaxRps == 3         \* largest max_rps a limiter is built with
MaxCallers == 3     \* callers of acquire()
MaxLatency == 2     \* longest time, in ms, a request takes to reach the store
MaxCoroutines == 3  \* coroutines calling _RateLimiter.acquire()
MaxBacklog == 6     \* callers of acquire() in the histories with a long queue

\* the callers of acquire() on the one provider key
Callers == DOMAIN callers

\* __init__, lines 63-64
interval_ms == Max(1, 1000 \div max_rps)
ttl_ms == Max(2000, interval_ms * max_rps * 4)

\* GET: an expired key is not there
StoredValue == IF store # None /\ clock < store[1].expires_at THEN Some(store[1].value) ELSE None

\* _RESERVE_SLOT_SCRIPT lines 44-50: the instant the script returns
NextAllowed(now_ms) ==
    IF StoredValue # None /\ StoredValue[1] > now_ms THEN StoredValue[1] ELSE now_ms

\* arrival: the position of the caller's request in the order in which the
\* requests reached the store (0: not there yet)
IdleCaller ==
    [pc |-> "idle", now_ms |-> 0, allowed_at_ms |-> 0, wake_at |-> 0, released_at |-> 0,
     arrival |-> 0]

Arrived == {c \in Callers : callers[c].arrival > 0}

\* acquire line 67: the caller reads its clock, then sends the script
AcquireStart(c) ==
    /\ callers[c].pc = "idle"
    /\ callers' = [callers EXCEPT ![c] = [@ EXCEPT !.pc = "called", !.now_ms = clock]]
    /\ UNCHANGED <<max_rps, clock, store>>

\* the script runs at the store, atomically (lines 43-54); the caller takes the
\* reply and either returns or starts its sleep (lines 77-79)
ReserveSlot(c) ==
    /\ callers[c].pc = "called"
    /\ LET now_ms == callers[c].now_ms
           next_allowed_ms == NextAllowed(now_ms)
           wait_ms == next_allowed_ms - now_ms
           arrival == Cardinality(Arrived) + 1
       IN  /\ store' = Some([value |-> next_allowed_ms + interval_ms,
                             expires_at |-> clock + ttl_ms])
           /\ callers' = [callers EXCEPT ![c] =
                  IF wait_ms > 0
                  THEN [@ EXCEPT !.pc = "sleeping", !.allowed_at_ms = next_allowed_ms,
                                 !.wake_at = clock + wait_ms, !.arrival = arrival]
                  ELSE [@ EXCEPT !.pc = "released", !.allowed_at_ms = next_allowed_ms,
                                 !.released_at = clock, !.arrival = arrival]]
    /\ UNCHANGED <<max_rps, clock>>

\* asyncio.sleep(wait_ms / 1000) is over: acquire() returns
Wake(c) ==
    /\ callers[c].pc = "sleeping"
    /\ clock = callers[c].wake_at
    /\ callers' = [callers EXCEPT ![c] = [@ EXCEPT !.pc = "released", !.released_at = clock]]
    /\ UNCHANGED <<max_rps, clock, store>>

InFlight == {c \in Callers : callers[c].pc = "called"}
Sleeping == {c \in Callers : callers[c].pc = "sleeping"}

\* Time passes: by one millisecond while a request is on its way, or up to the
\* next instant at which a sleeper wakes or the key expires.  No sleeper
\* oversleeps and no request takes longer than MaxLatency.
Tick ==
    /\ \E t \in {clock + 1 : c \in InFlight}
                \cup {callers[c].wake_at : c \in Sleeping}
                \cup (IF store # None THEN {store[1].expires_at} ELSE {}) :
          /\ t > clock
          /\ \A c \in Sleeping : t <= callers[c].wake_at
          /\ \A c \in InFlight : t - callers[c].now_ms <= MaxLatency
          /\ clock' = t
    /\ UNCHANGED <<max_rps, store, callers>>

(***************************************************************************)
(* The parts of the system a specification leaves alone                    *)
(***************************************************************************)

LimiterIdle ==
    /\ max_rps = 1
    /\ clock = 0
    /\ store = None
    /\ callers = [c \in 1..MaxCallers |-> IdleCaller]

CallIdle == call = [fn |-> "none", args |-> <<>>, done |-> TRUE, ret |-> <<>>, again |-> <<>>]

IdleCoroutine == [pc |-> "idle", wake_at |-> 0, returned_at |-> 0]

MemoryIdle ==
    /\ monotonic = 0
    /\ _lock = FALSE
    /\ _next_time = 0
    /\ coroutines = [c \in 1..MaxCoroutines |-> IdleCoroutine]

\* llm_client.py, LLMRoute (lines 326-331): a field that may be None is an
\* option, a text is "" or not
LLMRoute(provider, model, api_key, base_url) ==
    [provider |-> provider, model |-> model, api_key |-> api_key, base_url |-> base_url]

\* bool(x) of an optional text
Bool(opt) == opt # None /\ opt[1] # ""

\* enabled without the test of the key: the mutation of RouteEnabled
RouteEnabled_without_key(route) ==
    /\ route.provider = "openai"
    /\ Bool(route.model)
    /\ Bool(route.base_url)

\* LLMRoute.enabled, line 335
RouteEnabled(route) ==
    /\ route.provider = "openai"
    /\ Bool(route.model)
    /\ Bool(route.api_key)
    /\ Bool(route.base_url)

\* value[: n]
Prefix(value, n) == SubSeq(value, 1, Min(Len(value), Max(n, 0)))

\* LLMClient.__init__, lines 34-56: stage_routes is a dictionary, here a
\* function from the stage names it holds to their lists
LLMClient(default_route, stage_routes, max_retries, max_fallbacks_per_stage) ==
    [max_retries |-> max_retries,
     max_fallbacks_per_stage |-> max_fallbacks_per_stage,
     stage_routes |-> [key \in {k \in DOMAIN stage_routes : stage_routes[k] # <<>>} |->
                          Prefix(stage_routes[key], max_fallbacks_per_stage + 1)],
     default_route |-> default_route]

CompleteRoute == LLMRoute("openai", Some("model"), Some("key"), Some("https://llm/v1"))

IdleGenerate ==
    [pc |-> "idle", fn |-> "", stage |-> "", routes |-> <<>>, route_index |-> 0,
     attempt |-> 0, fallback_reason |-> None, failure |-> None, last_failure |-> None,
     failed |-> {}, value |-> None, raised |-> None]

LlmIdle ==
    /\ llm = LLMClient(CompleteRoute, <<>>, 0, 0)
    /\ generate = IdleGenerate
    /\ posts = <<>>

\* claim_extractor.py line 41: asyncio.Semaphore(10)
ChunkSemaphore == 10

IdleExtraction ==
    [pc |-> "idle", semaphore |-> ChunkSemaphore, first_failed |-> 0, collected |-> <<>>,
     raised |-> ""]

ExtractIdle ==
    /\ analyze = [pc |-> "idle", segments |-> <<>>, chunk_size_chars |-> 0,
                  status_code |-> 0, claims |-> <<>>]
    /\ extraction = IdleExtraction
    /\ tasks = <<>>

IdleProcessing ==
    [pc |-> "idle", claims |-> <<>>, MAX_CONCURRENT_RESEARCH |-> 0, semaphore |-> 0,
     warnings |-> <<>>, first_failed |-> 0, results |-> <<>>, status_code |-> 0]

ProcessIdle ==
    /\ processing = IdleProcessing
    /\ claim_tasks = <<>>

IdleWorker ==
    [pc |-> "stopped", step |-> "", claims |-> 0, job |-> None, error |-> "",
     analysis_max_retries |-> 0, analysis_retry_backoff_seconds |-> 0]

GatewayIdle ==
    /\ analyses = <<>>
    /\ queue = <<>>
    /\ dlq = <<>>
    /\ worker = IdleWorker
    /\ executions = <<>>
    /\ background = <<>>
    /\ responses = <<>>
    /\ claim_rows = <<>>
    /\ polls = <<>>

RateIdle ==
    /\ settings = [rate_limit_requests |-> 0, rate_limit_window |-> 0]
    /\ rate_keys = <<>>
    /\ keys_made = <<>>
    /\ limited = <<>>

ResearchIdle ==
    /\ time = 0
    /\ cache = [ttl_seconds |-> 0, _store |-> <<>>]
    /\ research = <<>>

\* what the specification of one part leaves alone: the variables of the
\* other parts, which stay idle
restOfCall == <<limiterVars, memoryVars, llmVars, extractVars, processVars, gatewayVars, rateVars, researchVars>>
RestOfCallIdle ==
    LimiterIdle /\ MemoryIdle /\ LlmIdle /\ ExtractIdle /\ ProcessIdle /\ GatewayIdle /\ RateIdle /\ ResearchIdle
restOfLimiter == <<call, memoryVars, llmVars, extractVars, processVars, gatewayVars, rateVars, researchVars>>
RestOfLimiterIdle ==
    CallIdle /\ MemoryIdle /\ LlmIdle /\ ExtractIdle /\ ProcessIdle /\ GatewayIdle /\ RateIdle /\ ResearchIdle
restOfMemory == <<call, limiterVars, llmVars, extractVars, processVars, gatewayVars, rateVars, researchVars>>
restOfLlm == <<call, limiterVars, memoryVars, extractVars, processVars, gatewayVars, rateVars, researchVars>>
RestOfLlmIdle ==
    CallIdle /\ LimiterIdle /\ MemoryIdle /\ ExtractIdle /\ ProcessIdle /\ GatewayIdle /\ RateIdle /\ ResearchIdle
restOfExtract == <<call, limiterVars, memoryVars, llmVars, processVars, gatewayVars, rateVars, researchVars>>
RestOfExtractIdle ==
    CallIdle /\ LimiterIdle /\ MemoryIdle /\ LlmIdle /\ ProcessIdle /\ GatewayIdle /\ RateIdle /\ ResearchIdle
restOfProcess == <<call, limiterVars, memoryVars, llmVars, extractVars, gatewayVars, rateVars, researchVars>>
RestOfProcessIdle ==
    CallIdle /\ LimiterIdle /\ MemoryIdle /\ LlmIdle /\ ExtractIdle /\ GatewayIdle /\ RateIdle /\ ResearchIdle
restOfGateway == <<call, limiterVars, memoryVars, llmVars, extractVars, processVars, rateVars, researchVars>>
RestOfGatewayIdle ==
    CallIdle /\ LimiterIdle /\ MemoryIdle /\ LlmIdle /\ ExtractIdle /\ ProcessIdle /\ RateIdle /\ ResearchIdle
restOfRate == <<call, limiterVars, memoryVars, llmVars, extractVars, processVars, gatewayVars,
                researchVars>>
RestOfRateIdle ==
    /\ CallIdle /\ LimiterIdle /\ MemoryIdle /\ LlmIdle /\ ExtractIdle /\ ProcessIdle
    /\ GatewayIdle /\ ResearchIdle
restOfResearch == <<call, limiterVars, memoryVars, llmVars, extractVars, processVars,
                    gatewayVars, rateVars>>
RestOfResearchIdle ==
    /\ CallIdle /\ LimiterIdle /\ MemoryIdle /\ LlmIdle /\ ExtractIdle /\ ProcessIdle
    /\ GatewayIdle /\ RateIdle

InitRedisLimiter ==
    /\ RestOfLimiterIdle
    /\ max_rps \in 1..MaxRps
    /\ clock = 0
    /\ store = None
    /\ callers = [c \in 1..MaxCallers |-> IdleCaller]

NextRedisLimiter ==
    \/ \E c \in Callers : AcquireStart(c) /\ UNCHANGED restOfLimiter
    \/ \E c \in Callers : ReserveSlot(c) /\ UNCHANGED restOfLimiter
    \/ \E c \in Callers : Wake(c) /\ UNCHANGED restOfLimiter
    \/ Tick /\ UNCHANGED restOfLimiter

SpecRedisLimiter == InitRedisLimiter /\ [][NextRedisLimiter]_vars

\* Histories with a long queue: one limiter of max_rps = 1 and MaxBacklog
\* callers.  The callers are interchangeable, so they call acquire() in the
\* order of their numbers; the order in which their requests reach the store
\* stays free.  A request reaches the store within the millisecond it was sent
\* in, so time moves only from one wake-up or expiry to the next.
InitRedisBacklog ==
    /\ RestOfLimiterIdle
    /\ max_rps = 1
    /\ clock = 0
    /\ store = None
    /\ callers = [c \in 1..MaxBacklog |-> IdleCaller]

NextRedisBacklog ==
    \/ \E c \in Callers :
          /\ \A d \in Callers : d < c => callers[d].pc # "idle"
          /\ AcquireStart(c) /\ UNCHANGED restOfLimiter
    \/ \E c \in Callers : ReserveSlot(c) /\ UNCHANGED restOfLimiter
    \/ \E c \in Callers : Wake(c) /\ UNCHANGED restOfLimiter
    \/ InFlight = {} /\ Tick /\ UNCHANGED restOfLimiter

SpecRedisBacklog == InitRedisBacklog /\ [][NextRedisBacklog]_vars

(***************************************************************************)
(* pubmed_client.py, openalex_client.py: _RateLimiter                      *)
(*                                                                         *)
(* The code between two awaits runs without interruption and takes no time.*)
(* time.monotonic() counts in units of 1/Second of a second.               *)
(***************************************************************************)

Second == 12
MaxOversleep == 1   \* longest time asyncio.sleep() overruns its delay

Coroutines == DOMAIN coroutines

\* __init__: self._min_interval = 1.0 / max_rps
_min_interval == Second \div max_rps

\* acquire, last line, without the interval: the mutation of NextTime
NextTime_without_interval(now) == Max(now, _next_time)

\* acquire, last line: max(now, self._next_time) + self._min_interval
NextTime(now) == Max(now, _next_time) + _min_interval

\* acquire() is called.  A free lock is taken at once; the coroutine reads the
\* clock and either starts its sleep inside the lock or updates _next_time,
\* releases the lock and returns.  A held lock makes the coroutine wait.
Acquire(c) ==
    /\ coroutines[c].pc \in {"idle", "waiting"}
    /\ IF _lock
       THEN /\ coroutines[c].pc = "idle"
            /\ coroutines' = [coroutines EXCEPT ![c].pc = "waiting"]
            /\ UNCHANGED <<_lock, _next_time>>
       ELSE LET now == monotonic
            IN  IF now < _next_time
                THEN /\ _lock' = TRUE
                     /\ coroutines' = [coroutines EXCEPT ![c] =
                            [@ EXCEPT !.pc = "sleeping", !.wake_at = _next_time]]
                     /\ UNCHANGED _next_time
                ELSE /\ _next_time' = NextTime(now)
                     /\ coroutines' = [coroutines EXCEPT ![c] =
                            [@ EXCEPT !.pc = "returned", !.returned_at = now]]
                     /\ UNCHANGED _lock
    /\ UNCHANGED monotonic

\* asyncio.sleep() is over: the coroutine reads the clock again, updates
\* _next_time, releases the lock and returns
WakeUp(c) ==
    /\ coroutines[c].pc = "sleeping"
    /\ monotonic >= coroutines[c].wake_at
    /\ LET now == monotonic
       IN  /\ _next_time' = NextTime(now)
           /\ coroutines' = [coroutines EXCEPT ![c] =
                  [@ EXCEPT !.pc = "returned", !.returned_at = now]]
    /\ _lock' = FALSE
    /\ UNCHANGED monotonic

\* time passes while a call is still to be made or to return; no sleep
\* overruns by more than MaxOversleep
Elapse ==
    /\ \E c \in Coroutines : coroutines[c].pc # "returned"
    /\ \A c \in Coroutines :
          coroutines[c].pc = "sleeping" => monotonic < coroutines[c].wake_at + MaxOversleep
    /\ monotonic < (MaxCoroutines - 1) * (Second + MaxOversleep)
    /\ monotonic' = monotonic + 1
    /\ UNCHANGED <<_lock, _next_time, coroutines>>

InitRateLimiter ==
    /\ CallIdle
    /\ RateIdle
    /\ ResearchIdle
    /\ LlmIdle
    /\ ExtractIdle
    /\ ProcessIdle
    /\ GatewayIdle
    /\ max_rps \in 1..MaxRps
    /\ clock = 0
    /\ store = None
    /\ callers = [c \in 1..MaxCallers |-> IdleCaller]
    /\ MemoryIdle

\* The coroutines are interchangeable, so they call acquire() in the order of
\* their numbers; which of the waiting ones takes a released lock stays free.
NextRateLimiter ==
    \/ \E c \in Coroutines :
          /\ \A d \in Coroutines : d < c => coroutines[d].pc # "idle"
          /\ Acquire(c) /\ UNCHANGED restOfMemory
    \/ \E c \in Coroutines : WakeUp(c) /\ UNCHANGED restOfMemory
    \/ Elapse /\ UNCHANGED restOfMemory

SpecRateLimiter == InitRateLimiter /\ [][NextRateLimiter]_vars

(***************************************************************************)
(* Inputs                                                                  *)
(***************************************************************************)

MaxSepRun == 2      \* longest run of separator characters between two words
MaxPad == 1         \* most blanks before and after a raw text
MaxEvidence == 2    \* longest evidence list

RECURSIVE Interleave(_, _)
Interleave(words, sep) ==
    IF Len(words) <= 1 THEN words
    ELSE <<Head(words)>> \o sep \o Interleave(Tail(words), sep)

Blanks(n) == [i \in 1..n |-> " "]

Capitalised(words) == [i \in 1..Len(words) |-> CapitalOf[words[i]]]

Render(words, sep, cap, lead, trail) ==
    Blanks(lead) \o Interleave(IF cap THEN Capitalised(words) ELSE words, sep) \o Blanks(trail)

SeqsUpTo(S, n) == UNION {[1..k -> S] : k \in 0..n}

Separators == SeqsUpTo({" ", "-", "_"}, MaxSepRun) \ {<<>>}

VerdictWords ==
    {<<"supported">>, <<"partially", "supported">>, <<"partial", "support">>,
     <<"partly", "supported">>, <<"unsupported">>, <<"not", "supported">>,
     <<"insufficient", "evidence">>, <<"unsupported", "by", "evidence">>,
     <<"no", "evidence">>, <<"no", "evidence", "found">>,
     <<"no", "supporting", "evidence">>,
     <<>>, <<"refuted">>, <<"true">>, <<"evidence", "found">>, <<"not", "evidence">>}

\* the raw "verdict" values of a model response: missing, or any rendering of the
\* word lists above
RawVerdicts ==
    {None} \cup
    {Some(Render(w, sep, cap, lead, trail)) :
        w \in VerdictWords, sep \in Separators, cap \in BOOLEAN,
        lead \in 0..MaxPad, trail \in 0..MaxPad}

Tag(words) == Interleave(Capitalised(words), <<" ">>)

EvidenceSource(publication_type, source_type) ==
    [publication_type |-> publication_type, source_type |-> source_type]

Humans == <<"Humans">>
JournalArticle == Tag(<<"journal", "article">>)

MetaAnalysisItem == EvidenceSource(Some(<<<<"Meta", "-", "Analysis">>, Humans>>), <<"pubmed">>)
SystematicReviewItem == EvidenceSource(Some(<<Tag(<<"systematic", "review">>), Humans>>), <<"pubmed">>)
RctItem == EvidenceSource(Some(<<Tag(<<"randomized", "controlled", "trial">>), Humans>>), <<"pubmed">>)
ClinicalTrialItem == EvidenceSource(Some(<<Tag(<<"clinical", "trial">>), Humans>>), <<"pubmed">>)
ObservationalItem == EvidenceSource(Some(<<Tag(<<"observational", "study">>), Humans>>), <<"pubmed">>)
CaseReportItem == EvidenceSource(Some(<<<<"Case", " ", "Report", "s">>, Humans>>), <<"pubmed">>)
MouseItem == EvidenceSource(Some(<<JournalArticle, <<"Mice">>, <<"Animal", "s">>>>), <<"pubmed">>)
MouseHumanItem == EvidenceSource(Some(<<JournalArticle, <<"Animal", "s">>, Humans>>), <<"pubmed">>)
InVitroItem == EvidenceSource(Some(<<Tag(<<"in", "vitro", "techniques">>)>>), <<"pubmed">>)
WebItem == EvidenceSource(None, <<"tavily">>)
ComparativeItem == EvidenceSource(Some(<<<<"Compa", "rat", "ive", " ", "Study">>, Humans>>), <<"pubmed">>)
ArticleItem == EvidenceSource(Some(<<JournalArticle, Humans>>), <<"pubmed">>)

EvidencePool ==
    {MetaAnalysisItem, SystematicReviewItem, RctItem, ClinicalTrialItem,
     ObservationalItem, CaseReportItem, MouseItem, MouseHumanItem, InVitroItem,
     WebItem, ComparativeItem, ArticleItem}

\* the items the judged responses are paired with
JudgedPool == {MetaAnalysisItem, MouseItem, MouseHumanItem, WebItem}

OtherNuance == "Based on limited data."

RawNuances ==
    {None, Some(<<" ", OtherNuance>>), Some(<<NonHumanNote>>),
     Some(<<NonHumanNote, " ", NonHumanNote>>)}

\* the JSON objects the model returns (a missing key and null are both None)
RawResponses ==
    [verdict : {None, Some(<<"supported">>), Some(<<"Partially", " ", "Supported">>),
                Some(<<"not", "-", "supported">>), Some(<<"no", "_", "evidence", "_", "found">>)},
     confidence : {None, Some(-10), Some(30), Some(90), Some(150)},
     explanation : {None, Some(<<" ", "The studies agree.">>)},
     nuance : RawNuances,
     evidence_level : {None, Some(<<"high">>), Some(<<" ", "Low">>)},
     study_type : {None, Some(<<"Animal">>), Some(<<"rct">>)}]

\* ClaimAnalysis objects as any caller may build them
ClaimAnalysisObjects ==
    {ClaimAnalysis([verdict |-> v, confidence |-> c, explanation |-> <<"The studies agree.">>,
                    nuance |-> n]) :
        v \in CanonicalVerdicts \cup {"refuted"},
        c \in {-10, 30, 50, 90, 150},
        n \in RawNuances}

Pending(fn, args) == [fn |-> fn, args |-> args, done |-> FALSE, ret |-> <<>>, again |-> <<>>]

(***************************************************************************)
(* Calls of the pure functions                                             *)
(***************************************************************************)

Run_normalize_verdict ==
    /\ call.fn = "_normalize_verdict" /\ ~call.done
    /\ call' = [call EXCEPT !.done = TRUE,
                            !.ret = _normalize_verdict(call.args[1], call.args[2])]

Run_infer_evidence_classification ==
    /\ call.fn = "_infer_evidence_classification" /\ ~call.done
    /\ call' = [call EXCEPT !.done = TRUE,
                            !.ret = _infer_evidence_classification(call.args[1])]

\* analyze_claim line 63, once the model has answered with args[1]
Run_coerce_analysis ==
    /\ call.fn = "_coerce_analysis" /\ ~call.done
    /\ call' = [call EXCEPT !.done = TRUE,
                            !.ret = _coerce_analysis(call.args[1], call.args[2])]

\* the pass applied to an object, and applied again to what it returned
Run_apply_evidence_policy ==
    /\ call.fn = "_apply_evidence_policy" /\ ~call.done
    /\ LET once == _apply_evidence_policy(call.args[1], call.args[2])
       IN  call' = [call EXCEPT !.done = TRUE,
                                !.ret = once,
                                !.again = IF once.raised # "" THEN once
                                          ELSE _apply_evidence_policy(once.value[1], call.args[2])]

InitNormalize ==
    /\ call \in {Pending("_normalize_verdict", <<v, has_sources>>) :
                v \in RawVerdicts, has_sources \in BOOLEAN}
    /\ RestOfCallIdle
NextNormalize == Run_normalize_verdict /\ UNCHANGED restOfCall
SpecNormalize == InitNormalize /\ [][NextNormalize]_vars

InitInfer ==
    /\ call \in {Pending("_infer_evidence_classification", <<sources>>) :
                sources \in SeqsUpTo(EvidencePool, MaxEvidence)}
    /\ RestOfCallIdle
NextInfer == Run_infer_evidence_classification /\ UNCHANGED restOfCall
SpecInfer == InitInfer /\ [][NextInfer]_vars

InitPolicy ==
    /\ call \in {Pending("_coerce_analysis", <<data, sources>>) :
                data \in RawResponses, sources \in SeqsUpTo(JudgedPool, MaxEvidence)}
          \cup {Pending("_apply_evidence_policy", <<analysis, sources>>) :
                analysis \in ClaimAnalysisObjects, sources \in SeqsUpTo(JudgedPool, MaxEvidence)}
    /\ RestOfCallIdle
NextPolicy ==
    \/ Run_coerce_analysis /\ UNCHANGED restOfCall
    \/ Run_apply_evidence_policy /\ UNCHANGED restOfCall
SpecPolicy == InitPolicy /\ [][NextPolicy]_vars

(***************************************************************************)
(* claim_extractor.py: _chunk_segments                                     *)
(*                                                                         *)
(* A chunk is the JSON text of a list of items.  It is kept as the list,   *)
(* and _serialize builds the text json.dumps gives for it.                 *)
(***************************************************************************)

MaxSegments == 3    \* longest transcript

Pad2(n) == IF n < 10 THEN "0" \o ToString(n) ELSE ToString(n)

\* _format_timestamp, lines 277-284, for a whole number of seconds
_format_timestamp(value) ==
    LET seconds == Max(0, value)
        hours == seconds \div 3600
        minutes == (seconds % 3600) \div 60
        secs == seconds % 60
    IN  IF hours # 0
        THEN ToString(hours) \o ":" \o Pad2(minutes) \o ":" \o Pad2(secs)
        ELSE ToString(minutes) \o ":" \o Pad2(secs)

\* json.dumps of a text: the quotation mark is escaped
JsonText(text) == "\"" \o Join([i \in 1..Len(text) |-> IF text[i] = "\"" THEN "\\\"" ELSE text[i]]) \o "\""

JsonItem(item) ==
    "{\"timestamp\": " \o JsonText(<<item.timestamp>>) \o ", \"text\": " \o JsonText(item.text) \o "}"

RECURSIVE JsonItems(_)
JsonItems(items) ==
    IF items = <<>> THEN ""
    ELSE IF Len(items) = 1 THEN JsonItem(items[1])
    ELSE JsonItem(items[1]) \o ", " \o JsonItems(Tail(items))

\* _serialize, lines 244-245
_serialize(items) == "[" \o JsonItems(items) \o "]"

\* the loop body that drops an oversized item: the mutation of ChunkStep
ChunkStep_drop_oversized(state, segment, limit) ==
    LET text == strip(segment.text)
        item == [timestamp |-> _format_timestamp(segment.start), text |-> text]
        candidate == Append(state.current, item)
        flush == state.current # <<>> /\ Len(_serialize(candidate)) > limit
        chunks == IF flush THEN Append(state.chunks, state.current) ELSE state.chunks
        current == IF flush THEN <<>> ELSE state.current
    IN  IF text = <<>> THEN state
        ELSE IF Len(_serialize(<<item>>)) > limit
        THEN [chunks |-> chunks, current |-> current]
        ELSE [chunks |-> chunks, current |-> Append(current, item)]

\* the loop body, lines 248-264; state holds chunks and current
ChunkStep(state, segment, limit) ==
    LET text == strip(segment.text)
        item == [timestamp |-> _format_timestamp(segment.start), text |-> text]
        candidate == Append(state.current, item)
        flush == state.current # <<>> /\ Len(_serialize(candidate)) > limit
        chunks == IF flush THEN Append(state.chunks, state.current) ELSE state.chunks
        current == IF flush THEN <<>> ELSE state.current
    IN  IF text = <<>> THEN state
        ELSE IF Len(_serialize(<<item>>)) > limit
        THEN [chunks |-> Append(chunks, <<item>>), current |-> current]
        ELSE [chunks |-> chunks, current |-> Append(current, item)]

RECURSIVE ChunkLoop(_, _, _)
ChunkLoop(state, segments, limit) ==
    IF segments = <<>> THEN state
    ELSE ChunkLoop(ChunkStep(state, Head(segments), limit), Tail(segments), limit)

\* _chunk_segments, lines 238-274
_chunk_segments(segments, limit) ==
    IF segments = <<>> THEN <<>>
    ELSE LET state == ChunkLoop([chunks |-> <<>>, current |-> <<>>], segments, limit)
         IN  IF state.current # <<>> THEN Append(state.chunks, state.current)
             ELSE state.chunks

TranscriptSegment(start, text) == [start |-> start, text |-> text]

\* transcript segments: short, with quotation marks, long, blank, empty, and
\* with a start below zero, past a minute, past ten minutes, past an hour
SegmentPool ==
    {TranscriptSegment(0 - 3, <<" ", "zinc", " ">>),
     TranscriptSegment(65, <<"say", " ", "\"", "no", "\"">>),
     TranscriptSegment(3725, <<"vitamin", " ", "C", " ", "shortens", " ", "colds">>),
     TranscriptSegment(5, <<" ", " ">>),
     TranscriptSegment(7, <<>>),
     TranscriptSegment(600, <<"zinc">>)}

\* chunk_size_chars: below every item, and around the lengths of one and of
\* two items
ChunkLimits == {0, 38, 39, 50, 78, 79, 84, 100, 5000}

Run_chunk_segments ==
    /\ call.fn = "_chunk_segments" /\ ~call.done
    /\ call' = [call EXCEPT !.done = TRUE,
                            !.ret = _chunk_segments(call.args[1], call.args[2])]

InitChunk ==
    /\ call \in {Pending("_chunk_segments", <<segments, limit>>) :
                segments \in SeqsUpTo(SegmentPool, MaxSegments), limit \in ChunkLimits}
    /\ RestOfCallIdle
NextChunk == Run_chunk_segments /\ UNCHANGED restOfCall
SpecChunk == InitChunk /\ [][NextChunk]_vars

(***************************************************************************)
(* claim_extractor.py: the helpers of extract_claims                       *)
(*                                                                         *)
(* A dictionary of a model answer is a record whose fields are options;    *)
(* an answer that is not of the expected shape is None.                    *)
(***************************************************************************)

\* schemas.py, lines 22-27: the fields ClaimDraft declares
ClaimDraftFields == {"claim", "category", "timestamp", "specificity", "keywords"}

\* ClaimDraft(**kwargs): a keyword the model does not declare is dropped
ClaimDraft(kwargs) == [f \in (DOMAIN kwargs) \cap ClaimDraftFields |-> kwargs[f]]

\* claim.search_query = value on every claim, in list order: assigning a field
\* the model does not declare raises ValueError
SetSearchQueries(claims, values) ==
    IF claims = <<>> THEN Returned(claims)
    ELSE IF "search_query" \in ClaimDraftFields
    THEN Returned([i \in 1..Len(claims) |->
                     [f \in DOMAIN claims[i] \cup {"search_query"} |->
                         IF f = "search_query" THEN values[i] ELSE claims[i][f]]])
    ELSE Raised("ValueError")

\* _normalize, lines 146-150
_normalize(value) ==
    IF value = None THEN None
    ELSE IF strip(value[1]) = <<>> THEN None ELSE Some(strip(value[1]))

\* _coerce_claims, lines 124-143
RECURSIVE _coerce_claims(_)
_coerce_claims(data) ==
    IF data = None \/ data[1] = <<>> THEN <<>>
    ELSE LET item == Head(data[1])
             claim == strip(str_or_empty(item.claim))
             rest == _coerce_claims(Some(Tail(data[1])))
         IN  IF claim = <<>> THEN rest
             ELSE <<ClaimDraft([claim |-> claim,
                                timestamp |-> _normalize(item.timestamp),
                                search_query |-> _normalize(item.search_query)])>> \o rest

RECURSIVE Concat(_)
Concat(lists) == IF lists = <<>> THEN <<>> ELSE Head(lists) \o Concat(Tail(lists))

\* _reset_search_queries, lines 184-186
_reset_search_queries(claims) == SetSearchQueries(claims, [i \in 1..Len(claims) |-> None])

\* _apply_search_queries, lines 167-181, on claims that were reset: the last
\* item of an id in range gives the query of that claim
AppliedQuery(data, id) ==
    LET items == IF data = None THEN <<>> ELSE data[1]
        hits == {k \in 1..Len(items) : items[k].id = id}
    IN  IF hits = {} THEN None
        ELSE _normalize(items[CHOOSE k \in hits : \A h \in hits : h <= k].search_query)

_apply_search_queries(claims, data) ==
    IF data = None \/ \A k \in 1..Len(data[1]) : data[1][k].id \notin 1..Len(claims)
    THEN Returned(claims)
    ELSE SetSearchQueries(claims, [i \in 1..Len(claims) |-> AppliedQuery(data, i)])

count(text, piece) == Cardinality({i \in 1..Len(text) : text[i] = piece})

BooleanOperators == {"AND", "OR", "NOT", "and", "or", "not", "And", "Or", "Not"}
WordBreaks == {" ", "(", ")", "[", "]", "\""}

\* _validate_search_query, lines 214-235
_validate_search_query(query) ==
    LET text == strip(query)
    IN  IF Len(Join(text)) < 12 THEN Some("too_short")
        ELSE IF /\ text[Len(text)] \in BooleanOperators
                /\ (Len(text) = 1 \/ text[Len(text) - 1] \in WordBreaks)
        THEN Some("dangling_operator")
        ELSE IF text[Len(text)] = "(" THEN Some("dangling_open_paren")
        ELSE IF count(text, "(") # count(text, ")") THEN Some("unbalanced_parentheses")
        ELSE IF count(text, "\"") % 2 # 0 THEN Some("unbalanced_quotes")
        ELSE IF count(text, "[") # count(text, "]") THEN Some("unbalanced_brackets")
        ELSE None

\* _collect_invalid_search_queries, lines 201-211
_collect_invalid_search_queries(claims) ==
    LET reason(i) == IF claims[i].search_query = None THEN Some("missing")
                     ELSE _validate_search_query(claims[i].search_query[1])
        entry(i) == IF reason(i) = None THEN <<>>
                    ELSE <<"id=" \o ToString(i) \o ":" \o reason(i)[1]>>
    IN  Concat([i \in 1..Len(claims) |-> entry(i)])

\* lines 75-77: the answer to a query request is applied and checked
QueryRound(claims, query_data) ==
    LET reset == _reset_search_queries(claims)
        applied == _apply_search_queries(reset.value[1], query_data)
    IN  IF reset.raised # "" THEN reset
        ELSE IF applied.raised # "" THEN applied
        ELSE Returned([claims |-> applied.value[1],
                       invalid_queries |-> _collect_invalid_search_queries(applied.value[1])])

\* str.casefold() of a claim text
casefold(text) == Join(lower(text))

\* lines 104-121: the results of the chunks, in chunk order, are collected
RECURSIVE Collect(_, _, _)
Collect(claims, seen, collected) ==
    IF claims = <<>> THEN collected
    ELSE LET key == casefold(Head(claims).claim)
         IN  IF key \in seen THEN Collect(Tail(claims), seen, collected)
             ELSE Collect(Tail(claims), seen \cup {key}, Append(collected, Head(claims)))

(***************************************************************************)
(* claim_extractor.py: extract_claims, called by the analyze handler       *)
(*                                                                         *)
(* analyze is the request and its outcome, tasks the _extract_chunk        *)
(* coroutines in chunk order, extraction the call of extract_claims.  A    *)
(* coroutine runs from one await to the next in one step; the answers of   *)
(* llm.generate_json are chosen by the step that receives them.            *)
(***************************************************************************)

MaxChunks == 3    \* longest transcript of a request

\* claim_extractor.py, line 19
_SEARCH_QUERY_MAX_ATTEMPTS == 3

\* a text of 533 characters: its item alone is longer than 500
LongText ==
    [i \in 1..16 |-> IF i < 16 THEN "exercise improves sleep and mood; "
                     ELSE "exercise improves sleep"]

\* a segment that fills a chunk of 500 characters, and a blank one
RequestSegments == {TranscriptSegment(0, LongText), TranscriptSegment(5, <<" ", " ">>)}

\* schemas.py, lines 8-13: segments has at least one item, chunk_size_chars
\* lies in 500..20000 and is 5000 when left out
AnalysisRequests ==
    {[segments |-> segments, chunk_size_chars |-> limit] :
        segments \in SeqsUpTo(RequestSegments, MaxChunks) \ {<<>>}, limit \in {500, 5000}}

RawClaim(claim, timestamp, search_query) ==
    [claim |-> claim, timestamp |-> timestamp, search_query |-> search_query]

Exercise == RawClaim(Some(<<" ", "Exercise", " ", "improves", " ", "sleep">>), Some(<<"0:00">>), None)
exercise == RawClaim(Some(<<"exercise", " ", "improves", " ", "sleep">>), Some(<<"8:20">>), None)
Zinc == RawClaim(Some(<<"Zinc", " ", "cures", " ", "colds">>), None, Some(<<"zinc", " ", "AND">>))

\* answers to the extraction request: not a dictionary with a list, no item,
\* items without a claim text, and lists of claims
ExtractionData ==
    {None, Some(<<>>),
     Some(<<RawClaim(None, None, None), RawClaim(Some(<<" ">>), Some(<<"0:00">>), None)>>),
     Some(<<Exercise>>), Some(<<exercise, Zinc>>), Some(<<Zinc, Exercise>>)}

\* search_query values of an answer to the query request: a full query, one
\* that is too short, one that ends in an operator, one with an open
\* parenthesis, and none
QueryPool ==
    {Some(<<"(", "exercise", "[tiab]", ")", " ", "AND", " ", "sleep", "[tiab]">>),
     Some(<<"sleep">>),
     Some(<<"exercise", "[tiab]", " ", "AND">>),
     Some(<<"(", "exercise", "[tiab]", " ", "AND", " ", "sleep", "[tiab]">>),
     None}

\* answers to the query request for n claims: not a dictionary with a list,
\* one item of an id out of range, and one item for each claim
QueryData(n) ==
    {None, Some(<<[id |-> n + 1, search_query |-> CHOOSE q \in QueryPool : TRUE]>>)}
        \cup {Some([i \in 1..n |-> [id |-> i, search_query |-> f[i]]]) : f \in [1..n -> QueryPool]}

\* llm.generate_json returns the data or raises after its retries and routes
Replies(data) == {Raised("RuntimeError")} \cup {Returned(d) : d \in data}

WaitingTask == [pc |-> "waiting", claims |-> <<>>, attempt |-> 0, query_payload |-> "", raised |-> ""]

Tasks == DOMAIN tasks

\* leaving "async with semaphore" by return or by exception
Return(i, claims) ==
    /\ tasks' = [tasks EXCEPT ![i].pc = "done", ![i].claims = claims]
    /\ extraction' = [extraction EXCEPT !.semaphore = @ + 1]

Raise(i, exception) ==
    /\ tasks' = [tasks EXCEPT ![i].pc = "failed", ![i].raised = exception]
    /\ extraction' = [extraction EXCEPT !.semaphore = @ + 1,
                                        !.first_failed = IF @ = 0 THEN i ELSE @]

\* main.py, lines 154-160, and claim_extractor.py, lines 28-41 and 98-102:
\* the client is configured (main.py, line 150); the tasks are created
Analyze(request) ==
    /\ analyze.pc = "idle"
    /\ analyze' = [analyze EXCEPT !.pc = "extracting", !.segments = request.segments,
                                  !.chunk_size_chars = request.chunk_size_chars]
    /\ tasks' = [i \in 1..Len(_chunk_segments(request.segments, request.chunk_size_chars)) |->
                    WaitingTask]
    /\ extraction' = [extraction EXCEPT !.pc = "gathering"]

\* a chunk that enters without asking the semaphore: the mutation of EnterChunk
EnterChunk_unasked(i) ==
    /\ tasks[i].pc = "waiting"
    /\ tasks' = [tasks EXCEPT ![i].pc = "extraction"]
    /\ extraction' = [extraction EXCEPT !.semaphore = @ - 1]
    /\ UNCHANGED analyze

\* lines 44-55: the semaphore is taken and the extraction request is sent
EnterChunk(i) ==
    /\ tasks[i].pc = "waiting"
    /\ extraction.semaphore > 0
    /\ tasks' = [tasks EXCEPT ![i].pc = "extraction"]
    /\ extraction' = [extraction EXCEPT !.semaphore = @ - 1]
    /\ UNCHANGED analyze

\* lines 56-74: the answer to the extraction request
ExtractionReply(i, reply) ==
    /\ tasks[i].pc = "extraction"
    /\ IF reply.raised # "" THEN Raise(i, reply.raised)
       ELSE LET claims == _coerce_claims(reply.value[1])
            IN  IF claims = <<>> THEN Return(i, claims)
                ELSE /\ tasks' = [tasks EXCEPT ![i].pc = "query", ![i].claims = claims,
                                               ![i].attempt = 1, ![i].query_payload = "base"]
                     /\ UNCHANGED extraction
    /\ UNCHANGED analyze

\* lines 75-96: the answer to a query request
QueryReply(i, reply) ==
    /\ tasks[i].pc = "query"
    /\ IF reply.raised # "" THEN Raise(i, reply.raised)
       ELSE LET round == QueryRound(tasks[i].claims, reply.value[1])
            IN  IF round.raised # "" THEN Raise(i, round.raised)
                ELSE IF round.value[1].invalid_queries = <<>>
                THEN Return(i, round.value[1].claims)
                ELSE IF tasks[i].attempt < _SEARCH_QUERY_MAX_ATTEMPTS
                THEN /\ tasks' = [tasks EXCEPT ![i].claims = round.value[1].claims,
                                               ![i].attempt = @ + 1,
                                               ![i].query_payload = "retry"]
                     /\ UNCHANGED extraction
                ELSE Raise(i, "RuntimeError")
    /\ UNCHANGED analyze

\* a gather that is over once no task is running: the mutation of AllReturned
AllReturned_or_raised == \A i \in Tasks : tasks[i].pc \in {"done", "failed"}

\* every awaitable of gather has returned
AllReturned == \A i \in Tasks : tasks[i].pc = "done"

\* the results gather returns, in the order of the tasks
GatherResults == Concat([i \in 1..Len(tasks) |-> tasks[i].claims])

\* asyncio.gather, line 102, hands the first exception of a task to
\* extract_claims, and main.py, lines 161-163, answers 502
GatherRaises ==
    /\ extraction.pc = "gathering"
    /\ extraction.first_failed # 0
    /\ extraction' = [extraction EXCEPT !.pc = "raised",
                                        !.raised = tasks[extraction.first_failed].raised]
    /\ analyze' = [analyze EXCEPT !.pc = "failed", !.status_code = 502]
    /\ UNCHANGED tasks

\* lines 102-121: every task returned and the claims are collected; main.py,
\* lines 165-169, answers 400 when there is none and goes on otherwise
GatherReturns ==
    /\ extraction.pc = "gathering"
    /\ AllReturned
    /\ LET collected == Collect(GatherResults, {}, <<>>)
       IN  /\ extraction' = [extraction EXCEPT !.pc = "returned", !.collected = collected]
           /\ analyze' = IF collected = <<>>
                         THEN [analyze EXCEPT !.pc = "failed", !.status_code = 400]
                         ELSE [analyze EXCEPT !.pc = "processing", !.claims = collected]
    /\ UNCHANGED tasks

InitExtract == RestOfExtractIdle /\ ExtractIdle

NextExtract ==
    \/ \E request \in AnalysisRequests : Analyze(request) /\ UNCHANGED restOfExtract
    \/ \E i \in Tasks : EnterChunk(i) /\ UNCHANGED restOfExtract
    \/ \E i \in Tasks : \E reply \in Replies(ExtractionData) :
          ExtractionReply(i, reply) /\ UNCHANGED restOfExtract
    \/ \E i \in Tasks : \E reply \in Replies(QueryData(Len(tasks[i].claims))) :
          QueryReply(i, reply) /\ UNCHANGED restOfExtract
    \/ GatherRaises /\ UNCHANGED restOfExtract
    \/ GatherReturns /\ UNCHANGED restOfExtract

SpecExtract == InitExtract /\ [][NextExtract]_vars

(***************************************************************************)
(* extract_claims on a transcript of more chunks than the semaphore admits *)
(*                                                                         *)
(* gather starts the tasks in the order of the chunks and                  *)
(* asyncio.Semaphore wakes its waiters in the order they came, so the      *)
(* chunks enter the section in index order.  The answers of the LLM come   *)
(* in any order in which no answer overtakes more than MaxOvertake older   *)
(* requests.                                                               *)
(***************************************************************************)

MaxWaiting == 1     \* most chunks of a transcript beyond those the semaphore admits
MaxOvertake == 1    \* most older chunks still in the section when an answer comes

\* a text of 560 characters that states no claim
LongChatter == [i \in 1..16 |-> "welcome back to the channel, folks "]

\* transcripts of segments that fill a chunk each: all of them state a claim,
\* none does, or every other one does
ManyChunkRequests ==
    {[segments |-> [i \in 1..n |->
                        TranscriptSegment(0, IF stated = "all" \/ (stated = "every other" /\ i % 2 = 0)
                                             THEN LongText
                                             ELSE LongChatter)],
      chunk_size_chars |-> 500] :
        n \in ChunkSemaphore..(ChunkSemaphore + MaxWaiting),
        stated \in {"all", "none", "every other"}}

\* the answer of the LLM to the extraction request of chunk i: the claim of
\* its text, if it states one
ManyChunkAnswer(i) ==
    IF analyze.segments[i].text = LongText
    THEN Returned(Some(<<Exercise>>))
    ELSE Returned(Some(<<>>))

\* the chunks inside "async with semaphore": the extraction request or a
\* query request of theirs is awaited
InSection == {i \in Tasks : tasks[i].pc \in {"extraction", "query"}}

\* no chunk before chunk i still waits for the semaphore
FirstWaiting(i) == \A j \in 1..(i - 1) : tasks[j].pc # "waiting"

Answerable(i) == Cardinality({j \in InSection : j < i}) <= MaxOvertake

NextManyChunks ==
    \/ \E request \in ManyChunkRequests : Analyze(request) /\ UNCHANGED restOfExtract
    \/ \E i \in Tasks : FirstWaiting(i) /\ EnterChunk(i) /\ UNCHANGED restOfExtract
    \/ \E i \in Tasks :
          Answerable(i) /\ ExtractionReply(i, ManyChunkAnswer(i)) /\ UNCHANGED restOfExtract
    \/ \E i \in Tasks :
          Answerable(i) /\ QueryReply(i, Returned(None)) /\ UNCHANGED restOfExtract
    \/ GatherRaises /\ UNCHANGED restOfExtract
    \/ GatherReturns /\ UNCHANGED restOfExtract

SpecManyChunks == InitExtract /\ [][NextManyChunks]_vars

(***************************************************************************)
(* main.py: analyze, from the claims extract_claims returned to the        *)
(* results gather hands over (lines 169-226)                               *)
(*                                                                         *)
(* processing is the handler with its claims, semaphore and warnings,      *)
(* claim_tasks the process_claim coroutines in claim order.  The handler   *)
(* starts with a list of ClaimDraft objects of distinct case-folded texts, *)
(* as extract_claims builds them.                                          *)
(***************************************************************************)

MaxClaims == 3              \* most claims of an analysis
MaxConcurrentResearch == 2  \* largest ANALYSIS_MAX_CONCURRENT_RESEARCH
MaxJudgmentRequests == 2    \* most requests one llm.generate_json_with_usage call sends

\* a claim text of 90 characters in pieces of 10
LongClaim == [i \in 1..9 |-> "creatine  "]

\* text[:n], for a text whose pieces end at n characters or that is shorter
RECURSIVE Slice(_, _)
Slice(text, n) ==
    IF text = <<>> \/ Len(Head(text)) > n THEN <<>>
    ELSE <<Head(text)>> \o Slice(Tail(text), n - Len(Head(text)))

\* the claims of a transcript, of distinct case-folded texts
ClaimDrafts ==
    <<ClaimDraft([claim |-> <<"Exercise", " ", "improves", " ", "sleep">>,
                  timestamp |-> Some(<<"0:00">>), search_query |-> None]),
      ClaimDraft([claim |-> LongClaim, timestamp |-> Some(<<"8:20">>), search_query |-> None]),
      ClaimDraft([claim |-> <<"Zinc", " ", "cures", " ", "colds">>,
                  timestamp |-> None, search_query |-> None]),
      ClaimDraft([claim |-> <<"zinc">>, timestamp |-> None, search_query |-> None])>>

\* the lists extract_claims returns that pass line 165: not empty, and no two
\* claims of one case-folded text; here the runs of up to MaxClaims claims
ClaimLists ==
    UNION {{SubSeq(ClaimDrafts, first, last) :
               last \in first..Min(Len(ClaimDrafts), first + MaxClaims - 1)} :
           first \in 1..Len(ClaimDrafts)}

\* the parameters of fetch_research, claim_analyzer.py, lines 238-245
FetchResearchParameters ==
    {"client", "research_url", "claim", "search_query", "max_results", "sources"}

\* main.py, lines 179-187: the call of fetch_research up to its request.  The
\* arguments are evaluated first (an attribute the claim does not have raises
\* AttributeError), then the keywords are bound (one that is no parameter raises
\* TypeError)
fetch_research_call(claim) ==
    IF ~({"claim", "search_query"} \subseteq DOMAIN claim) THEN Raised("AttributeError")
    ELSE IF "headers" \notin FetchResearchParameters THEN Raised("TypeError")
    ELSE Returned("request")

\* the except clause that drops the warning: the mutation of RecordWarning
RecordWarning_dropped(warnings, claim, exc) == warnings

\* main.py, line 189: the warning of a failed lookup
RecordWarning(warnings, claim, exc) ==
    Append(warnings, [claim |-> Slice(claim.claim, 80), error |-> exc])

\* main.py, lines 207-222: the ClaimResult of a judged claim
ClaimResult(claim, analysis, sources) ==
    IF "search_query" \notin DOMAIN claim THEN Raised("AttributeError")
    ELSE Returned([claim |-> claim.claim, timestamp |-> claim.timestamp,
                   verdict |-> analysis.verdict, confidence |-> analysis.confidence,
                   explanation |-> analysis.explanation, nuance |-> analysis.nuance,
                   sources |-> sources])

\* the JSON objects the judgment request is answered with
JudgmentData ==
    {[verdict |-> Some(<<"supported">>), confidence |-> Some(90),
      explanation |-> Some(<<" ", "The studies agree.">>), nuance |-> None,
      evidence_level |-> Some(<<"high">>), study_type |-> Some(<<"rct">>)],
     [verdict |-> None, confidence |-> None, explanation |-> None, nuance |-> None,
      evidence_level |-> None, study_type |-> None]}

\* what becomes of a request of llm.generate_json_with_usage: the call returns
\* the data, the call raises when retries and routes are used up, or the
\* client sends the next request (a retry or the next route)
JudgmentReplies ==
    {Raised("RuntimeError"), [raised |-> "", value |-> <<>>, again |-> TRUE]}
        \cup {Returned(data) : data \in JudgmentData}

CreatedTask ==
    [pc |-> "created", sources |-> <<>>, requests |-> 0, result |-> None,
     raised |-> "", cause |-> ""]

ClaimTasks == DOMAIN claim_tasks

\* process_claim raises
RaiseFromClaim(i, exception, cause) ==
    /\ claim_tasks' = [claim_tasks EXCEPT ![i].pc = "failed", ![i].raised = exception,
                                          ![i].cause = cause]
    /\ processing' = [processing EXCEPT !.first_failed = IF @ = 0 THEN i ELSE @]

\* lines 173-203: the task runs to its first await.  The semaphore is free
\* whenever a task starts, for no task keeps it over an await: the call of
\* line 179 raises before fetch_research sends its request, the semaphore is
\* released, the warning is recorded and analyze_claim sends its request with
\* no evidence.  The tasks start in the order gather was given them.
StartClaim(i) ==
    /\ processing.pc = "gathering"
    /\ claim_tasks[i].pc = "created"
    /\ \A j \in ClaimTasks : j < i => claim_tasks[j].pc # "created"
    /\ processing.semaphore > 0
    /\ LET claim == processing.claims[i]
           fetched == fetch_research_call(claim)
       IN  IF fetched.raised # ""
           THEN /\ processing' = [processing EXCEPT
                                     !.warnings = RecordWarning(@, claim, fetched.raised)]
                /\ claim_tasks' = [claim_tasks EXCEPT ![i].pc = "judging",
                                                      ![i].sources = <<>>,
                                                      ![i].requests = 1]
           ELSE /\ processing' = [processing EXCEPT !.semaphore = @ - 1]
                /\ claim_tasks' = [claim_tasks EXCEPT ![i].pc = "fetching"]

\* lines 196-222 and claim_analyzer.py, lines 41-63: what follows a request of
\* the judgment call.  An error of analyze_claim becomes HTTPException(502)
\* (lines 204-206); an error of line 207 passes as it is.  No answer is handled
\* before every task has run to its first await.
JudgmentReply(i, reply) ==
    /\ claim_tasks[i].pc = "judging"
    /\ \A j \in ClaimTasks : claim_tasks[j].pc # "created"
    /\ IF "again" \in DOMAIN reply
       THEN /\ claim_tasks[i].requests < MaxJudgmentRequests
            /\ claim_tasks' = [claim_tasks EXCEPT ![i].requests = @ + 1]
            /\ UNCHANGED processing
       ELSE IF reply.raised # "" THEN RaiseFromClaim(i, "HTTPException", reply.raised)
       ELSE LET analysis == _coerce_analysis(reply.value[1], claim_tasks[i].sources)
                result == ClaimResult(processing.claims[i], analysis.value[1],
                                      claim_tasks[i].sources)
            IN  IF analysis.raised # ""
                THEN RaiseFromClaim(i, "HTTPException", analysis.raised)
                ELSE IF result.raised # "" THEN RaiseFromClaim(i, result.raised, "")
                ELSE /\ claim_tasks' = [claim_tasks EXCEPT ![i].pc = "done",
                                                           ![i].result = result.value]
                     /\ UNCHANGED processing

\* a gather that hands over what it has: the mutation of GatherFailed
GatherFailed_never == FALSE

\* asyncio.gather, lines 224-226: a task has raised
GatherFailed == processing.first_failed # 0

\* lines 224-229: gather raises the first error of a task, which ends the
\* request with status 502 (500 for an error that is no HTTPException), or it
\* returns the results in the order of the claims
Gather ==
    /\ processing.pc = "gathering"
    /\ \/ processing.first_failed # 0
       \/ \A i \in ClaimTasks : claim_tasks[i].pc = "done"
    /\ processing' =
          IF GatherFailed
          THEN [processing EXCEPT
                  !.pc = "failed",
                  !.status_code =
                      IF claim_tasks[processing.first_failed].raised = "HTTPException"
                      THEN 502 ELSE 500]
          ELSE [processing EXCEPT
                  !.pc = "report",
                  !.results = [i \in ClaimTasks |-> claim_tasks[i].result]]
    /\ UNCHANGED claim_tasks

InitProcess ==
    /\ RestOfProcessIdle
    /\ \E claims \in ClaimLists, limit \in 1..MaxConcurrentResearch :
          /\ processing = [IdleProcessing EXCEPT !.pc = "gathering", !.claims = claims,
                                                 !.MAX_CONCURRENT_RESEARCH = limit,
                                                 !.semaphore = limit]
          /\ claim_tasks = [i \in 1..Len(claims) |-> CreatedTask]

NextProcess ==
    \/ \E i \in ClaimTasks : StartClaim(i) /\ UNCHANGED restOfProcess
    \/ \E i \in ClaimTasks : \E reply \in JudgmentReplies :
          JudgmentReply(i, reply) /\ UNCHANGED restOfProcess
    \/ Gather /\ UNCHANGED restOfProcess

SpecProcess == InitProcess /\ [][NextProcess]_vars

(***************************************************************************)
(* api-gateway: db.py, services/orchestrator.py, services/analysis_queue.py,*)
(* worker.py, routers/analysis.py                                          *)
(*                                                                         *)
(* An analysis id is the index of its row in analyses (uuid4 gives an id   *)
(* no row has yet).  A run of Orchestrator.run_analysis stands at the call *)
(* it awaits (step).  The worker stands at the call it awaits (pc) and     *)
(* holds the job it took from the queue; worker.analysis_max_retries and   *)
(* worker.analysis_retry_backoff_seconds are the values worker.py reads    *)
(* from its settings.                                                      *)
(***************************************************************************)

MaxAnalyses == 2     \* most analyses created
MaxJobRetries == 2   \* largest analysis_max_retries
MaxBackoff == 1      \* largest analysis_retry_backoff_seconds

YoutubeUrls == {"https://youtu.be/creatine", "https://youtu.be/zinc"}

\* db.py: the fields of the dataclass ClaimInsert, and those without default
ClaimInsertFields ==
    {"claim", "category", "timestamp", "verdict", "confidence", "explanation",
     "keywords", "sources", "pubmed_requests", "tavily_requests",
     "openalex_requests", "llm_prompt_tokens", "llm_completion_tokens"}
ClaimInsertRequired ==
    {"claim", "category", "timestamp", "verdict", "confidence", "explanation",
     "keywords", "sources"}

\* ClaimInsert(**kwargs): a keyword that is no field, or a field without
\* default left out, is a TypeError
ClaimInsert(kwargs) ==
    IF kwargs \subseteq ClaimInsertFields /\ ClaimInsertRequired \subseteq kwargs
    THEN Returned("ClaimInsert")
    ELSE Raised("TypeError")

\* Orchestrator._map_claims: one ClaimInsert per claim of the analysis, each
\* built with these keywords
_map_claims(claims) ==
    IF claims = 0
    THEN Returned("mapped")
    ELSE ClaimInsert({"claim", "timestamp", "verdict", "confidence", "explanation",
                      "search_query", "sources", "pubmed_requests",
                      "llm_prompt_tokens", "llm_completion_tokens"})

\* db.py: the parameters of update_results, none with a default
UpdateResultsParameters ==
    <<"pool", "analysis_id", "summary", "overall_rating", "completed_at",
      "total_pubmed_requests", "total_tavily_requests", "total_openalex_requests",
      "total_llm_prompt_tokens", "total_llm_completion_tokens",
      "report_llm_prompt_tokens", "report_llm_completion_tokens">>

\* the call of update_results in run_analysis, with its positional arguments
update_results_call ==
    LET arguments == <<"pool", "analysis_id", "summary", "overall_rating",
                       "completed_at", "pubmed_requests", "llm_prompt_tokens",
                       "llm_completion_tokens", "report_prompt_tokens",
                       "report_completion_tokens">>
    IN  IF Len(arguments) = Len(UpdateResultsParameters)
        THEN Returned("request")
        ELSE Raised("TypeError")

\* what the call a run of run_analysis awaits can answer; _fetch_analysis
\* answers with the number of claims of the analysis
RunReplies(step) ==
    CASE step = "_fetch_transcription" ->
            {Raised("HTTPStatusError"), Returned("transcription")}
      [] step = "_fetch_analysis" ->
            {Raised("HTTPStatusError"), Returned(0), Returned(1)}
      [] OTHER -> {Raised("PostgresError"), Returned("done")}

\* Orchestrator.run_analysis from the answer of the call it awaits at step to
\* its next await: the step it awaits next ("raised" and "returned" end the
\* run), the exception, the status the answered call wrote, the number of
\* claims the run holds and the number of rows the answered call inserted
run_analysis(step, reply, claims) ==
    LET Goes(next) == [step |-> next, raised |-> "", status |-> None,
                       claims |-> claims, inserted |-> 0]
        Raises(exception) == [step |-> "raised", raised |-> exception, status |-> None,
                              claims |-> claims, inserted |-> 0]
    IN  IF reply.raised # ""
        THEN Raises(reply.raised)
        ELSE CASE step = "update_analysis_status" ->
                    [Goes("_fetch_transcription") EXCEPT !.status = Some("processing")]
               [] step = "_fetch_transcription" -> Goes("update_transcription")
               [] step = "update_transcription" -> Goes("_fetch_analysis")
               [] step = "_fetch_analysis" ->
                    IF _map_claims(reply.value[1]).raised # ""
                    THEN Raises(_map_claims(reply.value[1]).raised)
                    ELSE [Goes("insert_claims_and_sources") EXCEPT !.claims = reply.value[1]]
               [] step = "insert_claims_and_sources" ->
                    IF update_results_call.raised # ""
                    THEN [Raises(update_results_call.raised) EXCEPT !.inserted = claims]
                    ELSE [Goes("update_results") EXCEPT !.inserted = claims]
               [] step = "update_results" ->
                    [Goes("returned") EXCEPT !.status = Some("completed")]

\* the table analyses after the status a step of run_analysis wrote
WriteStatus(analysis_id, status) ==
    IF status = None
    THEN analyses
    ELSE [analyses EXCEPT ![analysis_id].status = status[1]]

\* db.insert_claims_and_sources: the transaction adds one row for each claim,
\* each under a fresh id, with the rows of its sources
InsertClaims(analysis_id, inserted) ==
    claim_rows \o [i \in 1..inserted |->
                      [analysis_id |-> analysis_id, run |-> executions[analysis_id]]]

\* db.create_analysis: a new row under a fresh id, status pending
create_analysis_row(youtube_url) ==
    Append(analyses, [youtube_url |-> youtube_url, status |-> "pending"])

AnalysisJob(analysis_id, attempt) == [analysis_id |-> analysis_id, attempt |-> attempt]

\* a producer creates an analysis and hands its job to AnalysisQueue.enqueue
\* (RPUSH), attempt 0
Submit(youtube_url) ==
    /\ Len(analyses) < MaxAnalyses
    /\ analyses' = create_analysis_row(youtube_url)
    /\ executions' = Append(executions, 0)
    /\ queue' = Append(queue, AnalysisJob(Len(analyses) + 1, 0))
    /\ UNCHANGED <<dlq, worker, background, responses, claim_rows, polls>>

\* run_forever: AnalysisQueue.dequeue (BLPOP) answers with the head of the
\* list, which Redis has removed; _process_job runs to the first await of
\* run_analysis
Dequeue ==
    /\ worker.pc = "dequeue"
    /\ queue # <<>>
    /\ queue' = Tail(queue)
    /\ worker' = [worker EXCEPT !.job = Some(Head(queue)),
                                !.pc = "run_analysis",
                                !.step = "update_analysis_status",
                                !.claims = 0,
                                !.error = ""]
    /\ executions' = [executions EXCEPT ![Head(queue).analysis_id] = @ + 1]
    /\ UNCHANGED <<analyses, dlq, background, responses, claim_rows, polls>>

RetryAllowed_below(next_attempt, analysis_max_retries) ==
    next_attempt < analysis_max_retries
\* _process_job: if next_attempt <= self._settings.analysis_max_retries
RetryAllowed(next_attempt, analysis_max_retries) ==
    next_attempt <= analysis_max_retries

\* the call run_analysis awaits answers; an exception of run_analysis enters
\* the handler of _process_job, which runs to its first await
RunReply(reply) ==
    /\ worker.pc = "run_analysis"
    /\ reply \in RunReplies(worker.step)
    /\ LET job == worker.job[1]
           next == run_analysis(worker.step, reply, worker.claims)
       IN  /\ analyses' = WriteStatus(job.analysis_id, next.status)
           /\ claim_rows' = InsertClaims(job.analysis_id, next.inserted)
           /\ worker' =
                CASE next.step = "raised" ->
                        [worker EXCEPT
                            !.pc = IF RetryAllowed(job.attempt + 1, worker.analysis_max_retries)
                                   THEN "retry_status"
                                   ELSE "failed_status",
                            !.step = "",
                            !.error = next.raised]
                  [] next.step = "returned" ->
                        [worker EXCEPT !.pc = "dequeue", !.job = None, !.step = ""]
                  [] OTHER -> [worker EXCEPT !.step = next.step, !.claims = next.claims]
    /\ UNCHANGED <<queue, dlq, executions, background, responses, polls>>

\* the worker process has ended: what it held is gone with it
Stopped(error) == [worker EXCEPT !.pc = "stopped", !.job = None, !.step = "", !.error = error]

\* a call the handler of _process_job awaits answers: update_analysis_status,
\* AnalysisQueue.enqueue, AnalysisQueue.push_dead_letter.  An exception raised
\* here leaves _process_job, run_forever and _run
HandlerReply(reply) ==
    /\ worker.pc \in {"retry_status", "enqueue", "failed_status", "push_dead_letter"}
    /\ reply \in {Raised("ConnectionError"), Returned("done")}
    /\ LET job == worker.job[1]
           next_attempt == job.attempt + 1
           delay == worker.analysis_retry_backoff_seconds * next_attempt
       IN  IF reply.raised # ""
           THEN /\ worker' = Stopped(reply.raised)
                /\ UNCHANGED <<analyses, queue, dlq>>
           ELSE CASE worker.pc = "retry_status" ->
                        /\ analyses' = WriteStatus(job.analysis_id, Some("pending"))
                        /\ worker' = [worker EXCEPT !.pc = IF delay > 0 THEN "sleep" ELSE "enqueue"]
                        /\ UNCHANGED <<queue, dlq>>
                  [] worker.pc = "enqueue" ->
                        /\ queue' = Append(queue, AnalysisJob(job.analysis_id, next_attempt))
                        /\ worker' = [worker EXCEPT !.pc = "dequeue", !.job = None]
                        /\ UNCHANGED <<analyses, dlq>>
                  [] worker.pc = "failed_status" ->
                        /\ analyses' = WriteStatus(job.analysis_id, Some("failed"))
                        /\ worker' = [worker EXCEPT !.pc = "push_dead_letter"]
                        /\ UNCHANGED <<queue, dlq>>
                  [] worker.pc = "push_dead_letter" ->
                        /\ dlq' = Append(dlq, job)
                        /\ worker' = [worker EXCEPT !.pc = "dequeue", !.job = None]
                        /\ UNCHANGED <<analyses, queue>>
    /\ UNCHANGED <<executions, background, responses, claim_rows, polls>>

\* asyncio.sleep(delay) of _process_job is over
SleepOver ==
    /\ worker.pc = "sleep"
    /\ worker' = [worker EXCEPT !.pc = "enqueue"]
    /\ UNCHANGED <<analyses, queue, dlq, executions, background, responses, claim_rows, polls>>

\* the worker process is stopped (a signal, a restart of its container)
Stop ==
    /\ worker.pc # "stopped"
    /\ worker' = Stopped("")
    /\ UNCHANGED <<analyses, queue, dlq, executions, background, responses, claim_rows, polls>>

\* _run: a worker process starts and enters run_forever
Start ==
    /\ worker.pc = "stopped"
    /\ worker' = [worker EXCEPT !.pc = "dequeue"]
    /\ UNCHANGED <<analyses, queue, dlq, executions, background, responses, claim_rows, polls>>

InitWorker ==
    /\ RestOfGatewayIdle
    /\ analyses = <<>>
    /\ queue = <<>>
    /\ dlq = <<>>
    /\ executions = <<>>
    /\ background = <<>>
    /\ responses = <<>>
    /\ claim_rows = <<>>
    /\ polls = <<>>
    /\ \E analysis_max_retries \in 0..MaxJobRetries, backoff \in 0..MaxBackoff :
          worker = [IdleWorker EXCEPT !.pc = "dequeue",
                                      !.analysis_max_retries = analysis_max_retries,
                                      !.analysis_retry_backoff_seconds = backoff]

NextWorker ==
    \/ \E youtube_url \in YoutubeUrls : Submit(youtube_url) /\ UNCHANGED restOfGateway
    \/ Dequeue /\ UNCHANGED restOfGateway
    \/ \E reply \in RunReplies(worker.step) : RunReply(reply) /\ UNCHANGED restOfGateway
    \/ \E reply \in {Raised("ConnectionError"), Returned("done")} :
          HandlerReply(reply) /\ UNCHANGED restOfGateway
    \/ SleepOver /\ UNCHANGED restOfGateway
    \/ Stop /\ UNCHANGED restOfGateway
    \/ Start /\ UNCHANGED restOfGateway

SpecWorker == InitWorker /\ [][NextWorker]_vars

\* schemas.py: the fields AnalysisCreateRequest declares; pydantic drops what a
\* request body carries beyond them
AnalysisCreateRequestFields ==
    {"youtube_url", "claims_per_chunk", "chunk_size_chars", "research_max_results",
     "research_sources", "is_public"}
AnalysisCreateRequest(body) ==
    [field \in DOMAIN body \cap AnalysisCreateRequestFields |-> body[field]]

\* the bodies of POST /api/v1/analysis, as tests/integration/test_gateway.py
\* builds them
RequestBodies ==
    {[youtube_url |-> youtube_url] : youtube_url \in YoutubeUrls}
    \cup {[youtube_url |-> youtube_url, force |-> TRUE] : youtube_url \in YoutubeUrls}

\* routers/analysis.py create_analysis: the row, the background task, the
\* response
create_analysis(body) ==
    LET payload == AnalysisCreateRequest(body)
        analysis_id == Len(analyses) + 1
    IN  /\ Len(analyses) < MaxAnalyses
        /\ analyses' = create_analysis_row(payload.youtube_url)
        /\ executions' = Append(executions, 0)
        /\ background' = Append(background,
                [analysis_id |-> analysis_id, step |-> "created", claims |-> 0,
                 raised |-> ""])
        /\ responses' = Append(responses,
                [body |-> body, analysis_id |-> analysis_id, status |-> "pending"])
        /\ UNCHANGED <<queue, dlq, worker, claim_rows, polls>>

\* the response is sent and the background task starts: run_analysis runs to
\* its first await
BackgroundStart(k) ==
    /\ background[k].step = "created"
    /\ background' = [background EXCEPT ![k].step = "update_analysis_status"]
    /\ executions' = [executions EXCEPT ![background[k].analysis_id] = @ + 1]
    /\ UNCHANGED <<analyses, queue, dlq, worker, responses, claim_rows, polls>>

\* the call the background task awaits answers; an exception of run_analysis
\* ends the task, nothing catches it
BackgroundReply(k, reply) ==
    /\ background[k].step \notin {"created", "raised", "returned"}
    /\ reply \in RunReplies(background[k].step)
    /\ LET next == run_analysis(background[k].step, reply, background[k].claims)
       IN  /\ analyses' = WriteStatus(background[k].analysis_id, next.status)
           /\ claim_rows' = InsertClaims(background[k].analysis_id, next.inserted)
           /\ background' = [background EXCEPT ![k].step = next.step,
                                               ![k].claims = next.claims,
                                               ![k].raised = next.raised]
    /\ UNCHANGED <<queue, dlq, worker, executions, responses, polls>>

MaxPolls == 1    \* GET requests
MaxPolled == 1   \* analyses of the clients that poll

\* db.fetch_claims with db.fetch_sources: the rows of an analysis
ClaimRowsOf(analysis_id) ==
    {i \in DOMAIN claim_rows : claim_rows[i].analysis_id = analysis_id}

\* routers/analysis.py get_analysis_status, lines 87-96: the handler up to its
\* first query, for a request the limiter lets through
Poll(analysis_id) ==
    /\ Len(polls) < MaxPolls
    /\ polls' = Append(polls, [analysis_id |-> analysis_id, pc |-> "fetch_analysis",
                               status_code |-> 0, status |-> "", claims |-> {}])
    /\ UNCHANGED <<analyses, queue, dlq, worker, executions, background, responses,
                   claim_rows>>

\* get_analysis_status, lines 96-160: the query the handler awaits answers.
\* The claims are read only when the row read before says completed.
PollReply(k, reply) ==
    /\ k \in DOMAIN polls
    /\ polls[k].pc \in {"fetch_analysis", "fetch_claims"}
    /\ LET analysis_id == polls[k].analysis_id
       IN  polls' = [polls EXCEPT ![k] =
              IF reply = "PostgresError"
              THEN [@ EXCEPT !.pc = "raised", !.status_code = 500]
              ELSE IF polls[k].pc = "fetch_claims"
                   THEN [@ EXCEPT !.pc = "returned", !.status_code = 200,
                                  !.claims = ClaimRowsOf(analysis_id)]
              ELSE IF analysis_id \notin DOMAIN analyses
                   THEN [@ EXCEPT !.pc = "raised", !.status_code = 404]
              ELSE IF analyses[analysis_id].status = "completed"
                   THEN [@ EXCEPT !.pc = "fetch_claims", !.status = "completed"]
              ELSE [@ EXCEPT !.pc = "returned", !.status_code = 200,
                             !.status = analyses[analysis_id].status]]
    /\ UNCHANGED <<analyses, queue, dlq, worker, executions, background, responses,
                   claim_rows>>

InitApi ==
    /\ RestOfGatewayIdle
    /\ GatewayIdle

NextApi ==
    \/ \E body \in RequestBodies : create_analysis(body) /\ UNCHANGED restOfGateway
    \/ \E k \in DOMAIN background : BackgroundStart(k) /\ UNCHANGED restOfGateway
    \/ \E k \in DOMAIN background :
          \E reply \in RunReplies(background[k].step) :
              BackgroundReply(k, reply) /\ UNCHANGED restOfGateway

SpecApi == InitApi /\ [][NextApi]_vars

\* the analyses of the clients that poll, and the GET requests for them and
\* for an id that no analysis has
NextPoll ==
    \/ \E youtube_url \in YoutubeUrls :
          /\ Len(analyses) < MaxPolled
          /\ create_analysis([youtube_url |-> youtube_url]) /\ UNCHANGED restOfGateway
    \/ \E k \in DOMAIN background : BackgroundStart(k) /\ UNCHANGED restOfGateway
    \/ \E k \in DOMAIN background :
          \E reply \in RunReplies(background[k].step) :
              BackgroundReply(k, reply) /\ UNCHANGED restOfGateway
    \/ \E analysis_id \in 1..(MaxPolled + 1) : Poll(analysis_id) /\ UNCHANGED restOfGateway
    \/ \E k \in DOMAIN polls, reply \in {"rows", "PostgresError"} :
          PollReply(k, reply) /\ UNCHANGED restOfGateway

SpecPoll == InitApi /\ [][NextPoll]_vars

(***************************************************************************)
(* The rate limit of the gateway (api_gateway/middleware/rate_limit.py)    *)
(*                                                                         *)
(* Every handler of the gateway awaits limiter(request) first.  Redis runs *)
(* one command at a time; the limiter awaits INCR and then EXPIRE, so the  *)
(* commands of other requests and the passing of time come in between.     *)
(* A key is None or [count, ttl]: ttl is the number of seconds the key has *)
(* left, NoExpiry for a key without an expiry.                             *)
(***************************************************************************)

MaxRateLimit == 2   \* largest rate_limit_requests
MaxWindow == 2      \* largest rate_limit_window, in seconds
MaxLimited == 3     \* requests that go through the limiter

\* Redis TTL of a key that has no expiry
NoExpiry == -1

\* request.client.host, None for a request without a client, and the header
\* x-user-email
ClientHosts == {None}
UserEmails == {None, Some(""), Some("ann@example.org")}

\* rate_limit.py lines 15-17
Identifier(client, email) ==
    IF email # None /\ email[1] # "" THEN email[1]
    ELSE IF client # None THEN client[1] ELSE "anonymous"

Identifiers == {Identifier(client, email) : client \in ClientHosts, email \in UserEmails}

\* line 13 with < for <=: the mutation of Unlimited
Unlimited_negative == settings.rate_limit_requests < 0

\* rate_limit.py line 13
Unlimited == settings.rate_limit_requests <= 0

\* rate_limit.py lines 9-18: the limiter up to its first await
Arrive(client, email) ==
    /\ Len(limited) < MaxLimited
    /\ limited' = Append(limited,
          [identifier |-> Identifier(client, email),
           pc |-> IF Unlimited THEN "returned" ELSE "incr",
           count |-> 0, key |-> 0, status_code |-> 0])
    /\ UNCHANGED <<settings, rate_keys, keys_made>>

\* rate_limit.py lines 25-26
Checked(request, incr) ==
    IF incr > settings.rate_limit_requests
    THEN [request EXCEPT !.pc = "raised", !.count = incr, !.status_code = 429]
    ELSE [request EXCEPT !.pc = "returned", !.count = incr]

\* rate_limit.py lines 20-21 and 23-24: INCR answers, or raises
Incr(i, reply) ==
    /\ limited[i].pc = "incr"
    /\ LET key == limited[i].identifier
           incr == IF rate_keys[key] = None THEN 1 ELSE rate_keys[key][1].count + 1
           made == IF rate_keys[key] = None THEN keys_made[key] + 1 ELSE keys_made[key]
       IN  IF reply = "error"
           THEN /\ limited' = [limited EXCEPT ![i].pc = "raised", ![i].status_code = 503]
                /\ UNCHANGED <<rate_keys, keys_made>>
           ELSE /\ rate_keys' = [rate_keys EXCEPT ![key] =
                       IF rate_keys[key] = None
                       THEN Some([count |-> 1, ttl |-> NoExpiry])
                       ELSE Some([rate_keys[key][1] EXCEPT !.count = incr])]
                /\ keys_made' = [keys_made EXCEPT ![key] = made]
                /\ limited' = [limited EXCEPT ![i] =
                       IF incr = 1
                       THEN [@ EXCEPT !.pc = "expire", !.count = incr, !.key = made]
                       ELSE Checked([@ EXCEPT !.key = made], incr)]
    /\ UNCHANGED settings

\* rate_limit.py lines 22-26: EXPIRE answers, or raises.  EXPIRE with a time
\* that is not positive deletes the key.
Expire(i, reply) ==
    /\ limited[i].pc = "expire"
    /\ LET key == limited[i].identifier
       IN  IF reply = "error"
           THEN /\ limited' = [limited EXCEPT ![i].pc = "raised", ![i].status_code = 503]
                /\ UNCHANGED rate_keys
           ELSE /\ rate_keys' = [rate_keys EXCEPT ![key] =
                       IF rate_keys[key] = None \/ settings.rate_limit_window <= 0
                       THEN None
                       ELSE Some([rate_keys[key][1] EXCEPT !.ttl = settings.rate_limit_window])]
                /\ limited' = [limited EXCEPT ![i] = Checked(@, limited[i].count)]
    /\ UNCHANGED <<settings, keys_made>>

\* one second passes in Redis: a key whose time is over is gone
SecondPasses ==
    /\ \E key \in Identifiers : rate_keys[key] # None /\ rate_keys[key][1].ttl > 0
    /\ rate_keys' = [key \in Identifiers |->
          IF rate_keys[key] = None \/ rate_keys[key][1].ttl = NoExpiry THEN rate_keys[key]
          ELSE IF rate_keys[key][1].ttl <= 1 THEN None
          ELSE Some([rate_keys[key][1] EXCEPT !.ttl = @ - 1])]
    /\ UNCHANGED <<settings, keys_made, limited>>

InitRate ==
    /\ RestOfRateIdle
    /\ settings \in [rate_limit_requests : (-1)..MaxRateLimit, rate_limit_window : 0..MaxWindow]
    /\ rate_keys = [key \in Identifiers |-> None]
    /\ keys_made = [key \in Identifiers |-> 0]
    /\ limited = <<>>

NextRate ==
    \/ \E client \in ClientHosts, email \in UserEmails :
          Arrive(client, email) /\ UNCHANGED restOfRate
    \/ \E i \in DOMAIN limited, reply \in {"ok", "error"} : Incr(i, reply) /\ UNCHANGED restOfRate
    \/ \E i \in DOMAIN limited, reply \in {"ok", "error"} : Expire(i, reply) /\ UNCHANGED restOfRate
    \/ SecondPasses /\ UNCHANGED restOfRate

SpecRate == InitRate /\ [][NextRate]_vars

(***************************************************************************)
(* transcription_service/transcript_parser.py: the overlap of the cues     *)
(*                                                                         *)
(* A cue text is the list of its words, which one blank separates          *)
(* (_normalize_text).  The words are single lower-case letters, so         *)
(* str.startswith on two texts is the prefix relation on their word lists  *)
(* and _tokenize_words gives the list itself.  A segment carries the       *)
(* number of its cue as start and as end.                                   *)
(***************************************************************************)

MaxCaptionWords == 7    \* most words in the cues of one caption file

CaptionWords == {"a", "b"}

\* schemas.py of the transcription service: TranscriptSegment
TranscriptionSegment(start, end, text) == [start |-> start, end |-> end, text |-> text]

\* str.startswith
StartsWith(text, prefix) ==
    Len(prefix) <= Len(text) /\ SubSeq(text, 1, Len(prefix)) = prefix

\* transcript_parser.py line 153
OverlapWordsCap == 12

\* _word_overlap_count, lines 148-158: the last size that matches is the
\* largest
_word_overlap_count(left, right) ==
    LET max_len == Min(Min(Len(left), Len(right)), OverlapWordsCap)
        sizes == {size \in 1..max_len :
                     SubSeq(left, Len(left) - size + 1, Len(left)) = SubSeq(right, 1, size)}
    IN  IF sizes = {} THEN 0 ELSE CHOOSE size \in sizes : \A other \in sizes : other <= size

\* _strip_leading_words, lines 161-171
_strip_leading_words(text, n) ==
    IF n <= 0 THEN text
    ELSE IF n >= Len(text) THEN <<>>
    ELSE SubSeq(text, n + 1, Len(text))

\* _dedupe_segments, lines 80-100: the body of the loop for one segment
DedupeSegment(cleaned, segment) ==
    IF segment.text = <<>> THEN cleaned
    ELSE IF cleaned = <<>> THEN <<segment>>
    ELSE LET prev == cleaned[Len(cleaned)]
             overlap_words == _word_overlap_count(prev.text, segment.text)
             trimmed == _strip_leading_words(segment.text, overlap_words)
         IN  IF segment.text = prev.text THEN cleaned
             ELSE IF StartsWith(segment.text, prev.text)
                  THEN [cleaned EXCEPT ![Len(cleaned)] = segment]
             ELSE IF StartsWith(prev.text, segment.text) THEN cleaned
             ELSE IF overlap_words >= 2
                  THEN IF trimmed = <<>> THEN cleaned
                       ELSE Append(cleaned,
                                   [segment EXCEPT !.text = trimmed])
             ELSE Append(cleaned, segment)

\* _dedupe_segments, lines 75-101: the loop over the first n segments
RECURSIVE DedupeFirst(_, _)
DedupeFirst(segments, n) ==
    IF n = 0 THEN <<>> ELSE DedupeSegment(DedupeFirst(segments, n - 1), segments[n])

_dedupe_segments(segments) == DedupeFirst(segments, Len(segments))

\* _parse_cues, lines 46-72: one segment for each cue with a text
_parse_cues(cues) == [i \in DOMAIN cues |-> TranscriptionSegment(i, i, cues[i])]

\* parse_captions, lines 12-21, for a file of the cues given
parse_captions(cues) ==
    LET segments == _parse_cues(cues)
    IN  IF segments # <<>> THEN _dedupe_segments(segments) ELSE segments

\* the texts of at most n words, none empty
CueTexts(n) == UNION {[1..k -> CaptionWords] : k \in 1..n}

\* the caption files whose cues have at most n words together
RECURSIVE Captions(_)
Captions(n) ==
    {<<>>} \cup UNION {{<<text>> \o rest : rest \in Captions(n - Len(text))} :
                          text \in CueTexts(n)}

Run_parse_captions ==
    /\ call.fn = "parse_captions" /\ ~call.done
    /\ call' = [call EXCEPT !.done = TRUE, !.ret = parse_captions(call.args[1])]

InitParser ==
    /\ call \in {Pending("parse_captions", <<cues>>) : cues \in Captions(MaxCaptionWords)}
    /\ RestOfCallIdle
NextParser == Run_parse_captions /\ UNCHANGED restOfCall
SpecParser == InitParser /\ [][NextParser]_vars

(***************************************************************************)
(* The cache of the research service (research_service/main.py,            *)
(* research_service/vector_store.py, research_service/schemas.py)          *)
(*                                                                         *)
(* The handler of POST /research runs without an await up to its first     *)
(* provider call (line 104).  On this source every handler ends before it: *)
(* line 80 reads request.keywords, and ResearchRequest declares no such    *)
(* field.  time.time() is a whole number of seconds.                       *)
(***************************************************************************)

MaxResearch == 3    \* POST /research requests
MaxTtl == 2         \* largest RESEARCH_CACHE_TTL_SECONDS
MaxTime == 3        \* seconds that pass

\* schemas.py lines 9-12 and 25-30: the fields the pydantic models declare
ResearchRequestFields == {"query", "max_results", "sources"}
ResearchResponseFields == {"query", "results", "cached", "took_ms", "pubmed_requests"}

\* ResearchRequest(**body): pydantic drops the keys that are no fields
ResearchRequest(body) == [f \in (DOMAIN body) \cap ResearchRequestFields |-> body[f]]

\* ResearchResponse(**kwargs), likewise
ResearchResponse(kwargs) == [f \in (DOMAIN kwargs) \cap ResearchResponseFields |-> kwargs[f]]

\* the bodies of the requests: the one of run_research_stub.py (lines 38-42),
\* the same with its sources in the other order and padded, and one with
\* keywords
ResearchBodies ==
    {[query |-> "vitamin d supplementation", max_results |-> 3,
      sources |-> <<<<"tavily">>, <<"pubmed">>>>],
     [query |-> "vitamin d supplementation", max_results |-> 3,
      sources |-> <<<<" ", "pubmed">>, <<"tavily", " ">>>>],
     [query |-> "creatine", max_results |-> 5,
      sources |-> <<<<"pubmed">>>>, keywords |-> <<"creatine">>]}

\* the order of sorted() on the names of the providers
SourceRank(name) ==
    CASE name = "openalex" -> 1 [] name = "pubmed" -> 2 [] name = "tavily" -> 3 [] OTHER -> 4

\* sorted(sources), for a list that names no provider twice
Sorted(names) ==
    LET present == {names[i] : i \in DOMAIN names}
        below(name) == Cardinality({other \in present : SourceRank(other) < SourceRank(name)})
    IN  [k \in 1..Cardinality(present) |-> CHOOSE name \in present : below(name) = k - 1]

\* main.py line 82: the parts of the key, which "::" separates
CacheKey(query, keyword_key, sources, max_results) ==
    [query |-> query, keywords |-> keyword_key, sources |-> Sorted(sources),
     max_results |-> max_results]

\* CacheStore.get, vector_store.py lines 18-26: the value returned and the
\* store it leaves
CacheGet(key) ==
    IF key \notin DOMAIN cache._store THEN [value |-> None, _store |-> cache._store]
    ELSE IF time > cache._store[key].expires_at
         THEN [value |-> None,
               _store |-> [k \in (DOMAIN cache._store) \ {key} |-> cache._store[k]]]
    ELSE [value |-> Some(cache._store[key].value), _store |-> cache._store]

\* what the handler of a request leaves: the answer and the store
Handled(request, pc, status_code, response, _store) ==
    [handler |-> [request |-> request, at |-> time, pc |-> pc, status_code |-> status_code,
                  response |-> response, failed_provider |-> ""],
     _store |-> _store]

\* research, main.py lines 76-95: the handler up to its first await
research_handler(request) ==
    LET sources == [i \in DOMAIN request.sources |-> Join(lower(strip(request.sources[i])))]
    IN  IF "keywords" \notin DOMAIN request
        THEN Handled(request, "raised", 500, None, cache._store)   \* line 80: AttributeError
        ELSE LET keyword_key == request.keywords
                 cache_key == CacheKey(request.query, keyword_key, sources, request.max_results)
                 got == CacheGet(cache_key)
             IN  IF got.value = None
                 THEN Handled(request, "searching", 0, None, got._store)
                 ELSE IF {"tavily_requests", "openalex_requests"} \subseteq DOMAIN got.value[1]
                      THEN Handled(request, "returned", 200,
                                   Some(ResearchResponse(
                                       [query |-> request.query,
                                        results |-> got.value[1].results,
                                        cached |-> TRUE, took_ms |-> 0,
                                        tavily_requests |-> got.value[1].tavily_requests,
                                        pubmed_requests |-> got.value[1].pubmed_requests,
                                        openalex_requests |-> got.value[1].openalex_requests])),
                                   got._store)
                      ELSE Handled(request, "raised", 500, None, got._store)   \* line 92

\* POST /research with a body that passes the validation
Research(body) ==
    /\ Len(research) < MaxResearch
    /\ LET handled == research_handler(ResearchRequest(body))
       IN  /\ research' = Append(research, handled.handler)
           /\ cache' = [cache EXCEPT !._store = handled._store]
    /\ UNCHANGED time

\* a second passes
ResearchSecond ==
    /\ time < MaxTime
    /\ time' = time + 1
    /\ UNCHANGED <<cache, research>>

InitResearch ==
    /\ RestOfResearchIdle
    /\ time = 0
    /\ cache \in {[ttl_seconds |-> ttl, _store |-> <<>>] : ttl \in 0..MaxTtl}
    /\ research = <<>>

\* no handler gets to the provider calls of lines 101-113, so none of their
\* answers is a step
NextResearch ==
    \/ \E body \in ResearchBodies : Research(body) /\ UNCHANGED restOfResearch
    \/ ResearchSecond /\ UNCHANGED restOfResearch

SpecResearch == InitResearch /\ [][NextResearch]_vars

(***************************************************************************)
(* llm_client.py: LLMClient                                                *)
(*                                                                         *)
(* generate holds the locals of the call: routes, route_index (from 0, as  *)
(* in the code), attempt, fallback_reason; failure is what the last        *)
(* request met, last_failure the exception the last failed route raised,   *)
(* failed the indices of the routes that raised.                           *)
(***************************************************************************)

MaxRoutes == 2      \* longest route list a stage is configured with
MaxRetries == 1     \* largest max_retries
MaxFallbacks == 2   \* largest max_fallbacks_per_stage

\* the routes a stage list is drawn from: complete, without a key, or of
\* another provider
StageRoutePool ==
    {CompleteRoute,
     LLMRoute("openai", Some("model"), None, Some("https://llm/v1")),
     LLMRoute("anthropic", Some("model"), Some("key"), Some("https://llm/v1"))}

\* the default routes: complete, or with one of the four fields missing
DefaultRoutePool ==
    StageRoutePool \cup
    {LLMRoute("", Some("model"), Some("key"), Some("https://llm/v1")),
     LLMRoute("openai", None, Some("key"), Some("https://llm/v1")),
     LLMRoute("openai", Some("model"), Some(""), Some("https://llm/v1")),
     LLMRoute("openai", Some("model"), Some("key"), None)}

\* the stage_routes argument: None, or a dictionary with the stage "extraction"
StageRouteArgs ==
    {<<>>} \cup {[key \in {"extraction"} |-> routes] : routes \in SeqsUpTo(StageRoutePool, MaxRoutes)}

\* the stage a call selects: one that may have routes, and one that has none
Stages == {"extraction", "Report summary"}

\* LLMClient.enabled, lines 58-63
ClientEnabled ==
    \/ RouteEnabled(llm.default_route)
    \/ \E key \in DOMAIN llm.stage_routes :
          \E i \in 1..Len(llm.stage_routes[key]) : RouteEnabled(llm.stage_routes[key][i])

Exception(class, status, message) == [class |-> class, status |-> status, message |-> message]

NotConfigured == Exception("RuntimeError", 0, "LLM client is not configured")
NoRouteExecuted == Exception("RuntimeError", 0, "LLM request failed before route execution")

\* what a request to a route can meet
BadStatuses == {400, 401, 429, 500, 502, 503, 504}
Responses ==
    {[kind |-> "status", status |-> code] : code \in BadStatuses} \cup
    {[kind |-> kind, status |-> 0] : kind \in {"read_timeout", "connect_timeout", "connect_error"}} \cup
    {[kind |-> kind, status |-> 200] : kind \in {"body_not_json", "empty_content", "invalid_json", "ok"}}

\* _should_retry_status, lines 378-379
_should_retry_status(status_code) == status_code \in {429, 500, 502, 503, 504}

\* one attempt more than max_retries + 1: the mutation of Retried
Retried_once_more(response, attempt) ==
    IF response.kind = "status"
    THEN attempt <= llm.max_retries /\ _should_retry_status(response.status)
    ELSE attempt <= llm.max_retries

\* _openai_json, lines 206-316: whether the attempt is followed by another one
Retried(response, attempt) ==
    IF response.kind = "status"
    THEN attempt < llm.max_retries /\ _should_retry_status(response.status)
    ELSE attempt < llm.max_retries

\* _openai_json: the exception that leaves the route when the attempt is the last
RouteException(response) ==
    CASE response.kind = "status" -> Exception("HTTPStatusError", response.status, "")
      [] response.kind = "read_timeout" -> Exception("ReadTimeout", 0, "")
      [] response.kind = "connect_timeout" -> Exception("ConnectTimeout", 0, "")
      [] response.kind = "connect_error" -> Exception("ConnectError", 0, "")
      [] response.kind = "empty_content" -> Exception("ValueError", 0, "LLM returned empty content")
      [] OTHER -> Exception("JSONDecodeError", 0, "")

\* _fallback_reason, lines 395-408; the status code is left out of "http_<code>"
_fallback_reason(exc) ==
    CASE exc.class = "ReadTimeout" -> "read_timeout"
      [] exc.class = "ConnectTimeout" -> "connect_timeout"
      [] exc.class = "HTTPStatusError" -> "http"
      [] exc.class = "JSONDecodeError" -> "invalid_json"
      [] exc.class = "ValueError" -> "invalid_response"
      [] exc.class = "ConnectError" -> "transport_error"
      [] OTHER -> "runtimeerror"

\* _generate_with_routes, line 119
max_index == Min(Len(generate.routes) - 1, llm.max_fallbacks_per_stage)

\* generate_json / generate_json_with_usage are called (lines 73-74, 91-92),
\* and _generate_with_routes picks the routes (lines 113-118)
Generate(fn, stage) ==
    /\ generate.pc = "idle"
    /\ generate' =
          IF ~ClientEnabled
          THEN [generate EXCEPT !.pc = "raised", !.fn = fn, !.stage = stage,
                                !.raised = Some(NotConfigured)]
          ELSE [generate EXCEPT !.pc = "select", !.fn = fn, !.stage = stage,
                                !.routes = IF stage \in DOMAIN llm.stage_routes
                                           THEN llm.stage_routes[stage]
                                           ELSE <<llm.default_route>>,
                                !.route_index = 0]
    /\ UNCHANGED <<llm, posts>>

\* the head of the loop, lines 120-125, and its end, line 152
SelectRoute ==
    /\ generate.pc = "select"
    /\ generate' =
          IF generate.route_index > max_index
          THEN [generate EXCEPT !.pc = "raised", !.raised = Some(NoRouteExecuted)]
          ELSE IF ~RouteEnabled(generate.routes[generate.route_index + 1])
          THEN [generate EXCEPT !.fallback_reason = Some("route_not_configured"),
                                !.route_index = @ + 1]
          ELSE [generate EXCEPT !.pc = "attempt", !.attempt = 0]
    /\ UNCHANGED <<llm, posts>>

\* a parsed answer that also goes on to the next route: the mutation of Succeed
Succeed_and_go_on(value) ==
    [generate EXCEPT !.pc = "select", !.value = Some(value), !.route_index = @ + 1]

\* lines 286-290 and 128: the parsed answer is returned
Succeed(value) == [generate EXCEPT !.pc = "returned", !.value = Some(value)]

\* lines 139-151: the exception leaves the route
Fail(exc) ==
    IF generate.route_index < max_index
    THEN [generate EXCEPT !.pc = "select", !.route_index = @ + 1,
                          !.fallback_reason = Some(_fallback_reason(exc)),
                          !.last_failure = Some(exc), !.failed = @ \cup {generate.route_index}]
    ELSE [generate EXCEPT !.pc = "raised", !.raised = Some(exc),
                          !.fallback_reason = Some(_fallback_reason(exc)),
                          !.last_failure = Some(exc), !.failed = @ \cup {generate.route_index}]

\* one turn of the loop of _openai_json, lines 199-317: the request is sent and
\* its outcome handled, the backoff sleep included
Attempt(response) ==
    /\ generate.pc = "attempt"
    /\ posts' = Append(posts, generate.route_index)
    /\ generate' =
          IF response.kind = "ok"
          THEN [Succeed(IF generate.fn = "generate_json_with_usage"
                        THEN "parsed, usage" ELSE "parsed") EXCEPT !.failure = None]
          ELSE IF Retried(response, generate.attempt)
          THEN [generate EXCEPT !.attempt = @ + 1, !.failure = Some(response)]
          ELSE [Fail(RouteException(response)) EXCEPT !.failure = Some(response)]
    /\ UNCHANGED llm

InitLlm ==
    /\ RestOfLlmIdle
    /\ llm \in {LLMClient(default_route, stage_routes, max_retries, max_fallbacks_per_stage) :
                 default_route \in DefaultRoutePool, stage_routes \in StageRouteArgs,
                 max_retries \in 0..MaxRetries, max_fallbacks_per_stage \in 0..MaxFallbacks}
    /\ generate = IdleGenerate
    /\ posts = <<>>

NextLlm ==
    \/ \E fn \in {"generate_json", "generate_json_with_usage"}, stage \in Stages :
          Generate(fn, stage) /\ UNCHANGED restOfLlm
    \/ SelectRoute /\ UNCHANGED restOfLlm
    \/ \E response \in Responses : Attempt(response) /\ UNCHANGED restOfLlm

SpecLlm == InitLlm /\ [][NextLlm]_vars

\* Calls whose requests meet one outcome of each kind: a status that is
\* retried, one that is not, a timeout, an answer that is no JSON, and an
\* answer.  The event loop runs a coroutine that can run, and every request
\* sent meets an outcome (the client's timeouts see to it).
RetryResponses ==
    {r \in Responses : \/ r.kind \in {"read_timeout", "invalid_json", "ok"}
                       \/ r.status \in {400, 503}}

NextLlmRetries ==
    \/ \E fn \in {"generate_json", "generate_json_with_usage"}, stage \in Stages :
          Generate(fn, stage) /\ UNCHANGED restOfLlm
    \/ SelectRoute /\ UNCHANGED restOfLlm
    \/ \E response \in RetryResponses : Attempt(response) /\ UNCHANGED restOfLlm

FairSpecLlm ==
    /\ InitLlm
    /\ [][NextLlmRetries]_vars
    /\ WF_vars(SelectRoute /\ UNCHANGED restOfLlm)
    /\ WF_vars(\E response \in RetryResponses : Attempt(response) /\ UNCHANGED restOfLlm)

(***************************************************************************)
(* Claims about the policy pass                                            *)
(***************************************************************************)

Judged == call.fn = "_coerce_analysis" /\ call.done
JudgedData == call.args[1]
JudgedSources == call.args[2]
Produced == call.ret.raised = ""
Final == call.ret.value[1]

\* C1: a response judged against an empty evidence list yields a ClaimAnalysis
\* whose verdict is no_evidence_found
C1_EmptyEvidenceVerdict ==
    (Judged /\ JudgedSources = <<>>) =>
        (Produced /\ Final.verdict = "no_evidence_found")

\* C2: a response judged against an empty evidence list yields a ClaimAnalysis
\* whose confidence is at most 0.2
C2_EmptyEvidenceConfidence ==
    (Judged /\ JudgedSources = <<>>) =>
        (Produced /\ Final.confidence <= 20)

\* C3: a response judged against a non-empty evidence list yields a ClaimAnalysis
\* whose verdict is not no_evidence_found; a raw no_evidence_found (or a synonym)
\* becomes unsupported_by_evidence
C3_EvidencePresentVerdict ==
    (Judged /\ JudgedSources # <<>>) =>
        /\ Produced
        /\ Final.verdict # "no_evidence_found"
        /\ _normalize_verdict(JudgedData.verdict, TRUE) = "no_evidence_found"
               => Final.verdict = "unsupported_by_evidence"

\* C4: every judged response yields a ClaimAnalysis with 0.0 <= confidence <= 1.0
C4_ConfidenceInRange ==
    Judged => (Produced /\ 0 <= Final.confidence /\ Final.confidence <= 100)

PolicyApplied == call.fn = "_apply_evidence_policy" /\ call.done

\* C5: applying the pass to its own result returns an object equal to that result
\* in every field
C5_Idempotent ==
    PolicyApplied =>
        /\ call.ret.raised = "" /\ call.again.raised = ""
        /\ call.again.value[1] = call.ret.value[1]

OnlyNonHumanItems(sources) ==
    /\ sources # <<>>
    /\ \A i \in 1..Len(sources) : _classify_source(sources[i]) \in {"animal", "in_vitro"}
    /\ ~_has_human_evidence(sources)

Occurrences(text, piece) == Cardinality({i \in 1..Len(text) : text[i] = piece})

\* C6: with only animal / in-vitro items and no "Humans" tag the final verdict is
\* neither supported nor partially_supported, the confidence is at most 0.4 and
\* the nuance holds the non-human caveat exactly once
C6_NonHumanCap ==
    (Judged /\ OnlyNonHumanItems(JudgedSources)) =>
        /\ Produced
        /\ Final.verdict \notin {"supported", "partially_supported"}
        /\ Final.confidence <= 40
        /\ Final.nuance # None
        /\ Occurrences(Final.nuance[1], NonHumanNote) = 1

\* C7: a final evidence_level of low or very_low comes with a verdict other than
\* supported and a confidence of at most 0.55
C7_WeakEvidenceCap ==
    (Judged /\ CoerceLocals(JudgedData, JudgedSources).evidence_level[1] \in {"low", "very_low"}) =>
        /\ Produced
        /\ "evidence_level" \in DOMAIN Final
        /\ Final.evidence_level[1] \in {"low", "very_low"}
        /\ Final.verdict # "supported"
        /\ Final.confidence <= 55

(***************************************************************************)
(* Claims about the helpers                                                *)
(***************************************************************************)

Normalized == call.fn = "_normalize_verdict" /\ call.done

\* the alias key a raw value spells, if any
SpelledKey(value) == Join(re_sub_runs(lower(strip(str_or_empty(value)))))

Inferred == call.fn = "_infer_evidence_classification" /\ call.done

\* the rank order of the study designs: meta-analysis / systematic review (6) >
\* RCT (4) > clinical trial (3) > observational (2) > case report / animal /
\* in vitro (1) > unknown (0)
DesignRank(study_type) ==
    CASE study_type \in {"meta_analysis", "systematic_review"} -> 6
      [] study_type = "rct" -> 4
      [] study_type = "clinical_trial" -> 3
      [] study_type = "observational" -> 2
      [] study_type \in {"case_report", "animal", "in_vitro"} -> 1
      [] OTHER -> 0

TopRank(sources) ==
    IF sources = <<>> THEN 0
    ELSE CHOOSE r \in 0..6 :
            /\ \E i \in 1..Len(sources) : DesignRank(_classify_source(sources[i])) = r
            /\ \A i \in 1..Len(sources) : DesignRank(_classify_source(sources[i])) <= r

\* C9: the derived evidence level is high when the highest-ranked study type
\* among the items has rank 3 or more, moderate for rank 2, low for rank 1 and
\* very_low otherwise
C9_LevelFromTopRank ==
    Inferred =>
        LET top == TopRank(call.args[1])
        IN  call.ret[1] = IF top >= 3 THEN "high"
                          ELSE IF top = 2 THEN "moderate"
                          ELSE IF top = 1 THEN "low"
                          ELSE "very_low"

C9_Witness ==
    /\ Inferred
    /\ call.args[1] = <<MetaAnalysisItem>>
    /\ call.ret = <<"high", "meta_analysis">>

(***************************************************************************)
(* Claims about the distributed limiter                                    *)
(***************************************************************************)

Released == {c \in Callers : callers[c].pc = "released"}

\* C10: any two callers are released at instants at least 1/max_rps seconds
\* (1000/max_rps ms) apart
C10_ReleaseGap ==
    \A c, d \in Released :
        c # d =>
            LET gap == IF callers[c].released_at >= callers[d].released_at
                       THEN callers[c].released_at - callers[d].released_at
                       ELSE callers[d].released_at - callers[c].released_at
            IN  gap * max_rps >= 1000

\* C11: of any two reservations the one whose request reached the store first
\* holds the earlier reserved instant, and the two instants are at least one
\* interval apart
C11_FifoDistinctSlots ==
    \A c, d \in Arrived :
        callers[c].arrival < callers[d].arrival =>
            callers[d].allowed_at_ms - callers[c].allowed_at_ms >= interval_ms

(***************************************************************************)
(* Claims about the in-memory limiter                                      *)
(***************************************************************************)

InsideSection == {c \in Coroutines : coroutines[c].pc = "sleeping"}
HasReturned == {c \in Coroutines : coroutines[c].pc = "returned"}

\* C12: at most one coroutine is inside the read-sleep-update section, and any
\* two returns from acquire() are at least 1/max_rps (Second/max_rps units)
\* apart
C12_SerializedReturns ==
    /\ Cardinality(InsideSection) <= 1
    /\ InsideSection # {} => _lock
    /\ \A c, d \in HasReturned :
          c # d =>
              LET gap == IF coroutines[c].returned_at >= coroutines[d].returned_at
                         THEN coroutines[c].returned_at - coroutines[d].returned_at
                         ELSE coroutines[d].returned_at - coroutines[c].returned_at
              IN  gap * max_rps >= Second

\* three coroutines have returned, one of them after a sleep that overran
\* while another was waiting for the lock
C12_Witness ==
    /\ HasReturned = Coroutines
    /\ \E c \in HasReturned :
          coroutines[c].wake_at > 0 /\ coroutines[c].returned_at > coroutines[c].wake_at

(***************************************************************************)
(* Claims about the LLM client                                             *)
(***************************************************************************)

RouteOf(i) == generate.routes[posts[i] + 1]

\* C13: the routes are contacted in list order; a route receives a request only
\* after every enabled route before it has failed; no route beyond the first
\* max_fallbacks_per_stage + 1 is contacted; after a success the parsed result
\* is returned, and the last request is the one that succeeded
C13_RoutesInOrder ==
    /\ \A i, j \in 1..Len(posts) : i < j => posts[i] <= posts[j]
    /\ \A i \in 1..Len(posts) :
          /\ posts[i] <= llm.max_fallbacks_per_stage
          /\ \A r \in 0..(posts[i] - 1) :
                RouteEnabled(generate.routes[r + 1]) => r \in generate.failed
    /\ generate.value # None =>
          /\ generate.pc = "returned"
          /\ posts # <<>> /\ posts[Len(posts)] = generate.route_index
          /\ generate.route_index \notin generate.failed

\* the first route failed and the second one answered
C13_Witness ==
    /\ generate.pc = "returned"
    /\ generate.failed = {0}
    /\ posts[Len(posts)] = 1

\* C14: a further attempt on the same route follows only HTTP 429 / 500 / 502 /
\* 503 / 504, a read timeout, empty content or a JSON-parse failure
C14_RetryOnlyListedFailures ==
    (generate.pc = "attempt" /\ generate.attempt > 0) =>
        \/ generate.failure[1].kind = "status"
               /\ generate.failure[1].status \in {429, 500, 502, 503, 504}
        \/ generate.failure[1].kind \in {"read_timeout", "empty_content", "invalid_json",
                                          "body_not_json"}

\* C15: when the call fails after some route has failed, the error raised is
\* the failure of the last route that failed
C15_TerminalErrorIsLastFailure ==
    (generate.pc = "raised" /\ generate.last_failure # None) =>
        generate.raised = generate.last_failure

AllPresent(route) ==
    /\ route.provider # ""
    /\ Bool(route.model) /\ Bool(route.api_key) /\ Bool(route.base_url)

ClientRoutes ==
    {llm.default_route} \cup
    UNION {{llm.stage_routes[key][i] : i \in 1..Len(llm.stage_routes[key])} :
              key \in DOMAIN llm.stage_routes}

\* C16: with no route whose provider is openai and whose model, api_key and
\* base_url are present, a call raises the not-configured error and sends no
\* request; and every route that receives a request has all four fields
C16_NotConfigured ==
    /\ (generate.pc # "idle" /\ \A route \in ClientRoutes : ~(route.provider = "openai" /\ AllPresent(route))) =>
          /\ generate.pc = "raised"
          /\ generate.raised = Some(NotConfigured)
          /\ posts = <<>>
    /\ \A i \in 1..Len(posts) : AllPresent(RouteOf(i))

\* the default route lacks only its key, the stage list holds a route of another
\* provider, and the call has raised
C16_Witness ==
    /\ generate.pc = "raised"
    /\ generate.raised = Some(NotConfigured)
    /\ llm.default_route.api_key = Some("")
    /\ "extraction" \in DOMAIN llm.stage_routes

(***************************************************************************)
(* Claims about the chunking                                               *)
(***************************************************************************)

Chunked == call.fn = "_chunk_segments" /\ call.done

RECURSIVE Flatten(_)
Flatten(chunks) == IF chunks = <<>> THEN <<>> ELSE Head(chunks) \o Flatten(Tail(chunks))

\* the items of the segments whose text is not blank, in segment order
RECURSIVE NonBlankItems(_)
NonBlankItems(segments) ==
    IF segments = <<>> THEN <<>>
    ELSE LET segment == Head(segments)
         IN  (IF \E i \in 1..Len(segment.text) : segment.text[i] # " "
              THEN <<[timestamp |-> _format_timestamp(segment.start), text |-> strip(segment.text)]>>
              ELSE <<>>) \o NonBlankItems(Tail(segments))

\* C18: the chunks, one after the other, hold the items of the non-blank
\* segments exactly once and in segment order; no chunk is empty; a chunk longer
\* than the limit holds a single item
C18_ChunksPartitionSegments ==
    Chunked =>
        LET chunks == call.ret
            limit == call.args[2]
        IN  /\ Flatten(chunks) = NonBlankItems(call.args[1])
            /\ \A k \in 1..Len(chunks) :
                  /\ chunks[k] # <<>>
                  /\ Len(_serialize(chunks[k])) > limit => Len(chunks[k]) = 1

\* an oversized segment between two that fit together: three chunks
C18_Witness ==
    /\ Chunked
    /\ call.args[2] = 50
    /\ Len(call.ret) = 3
    /\ Len(call.ret[2]) = 1 /\ Len(_serialize(call.ret[2])) > 50

(***************************************************************************)
(* Claims about extract_claims                                             *)
(***************************************************************************)

ExtractionOver == extraction.pc \in {"returned", "raised"}

\* no answer of the model was missing and no query was refused three times
NoRuntimeError == \A i \in Tasks : tasks[i].raised # "RuntimeError"

\* two chunks have extracted claims of the same case-folded text
DuplicatedAcrossChunks ==
    \E i, j \in Tasks :
        /\ i < j
        /\ \E a \in 1..Len(tasks[i].claims), b \in 1..Len(tasks[j].claims) :
              casefold(tasks[i].claims[a].claim) = casefold(tasks[j].claims[b].claim)

\* the claims of a list whose case-folded text no earlier claim has
RECURSIVE FirstSeen(_)
FirstSeen(list) ==
    IF list = <<>> THEN <<>>
    ELSE LET n == Len(list)
             earlier == SubSeq(list, 1, n - 1)
         IN  IF \E h \in 1..(n - 1) : casefold(list[h].claim) = casefold(list[n].claim)
             THEN FirstSeen(earlier)
             ELSE Append(FirstSeen(earlier), list[n])

\* C17: when chunks have extracted claims of the same case-folded text and
\* no call of the model and no query validation has failed, extract_claims
\* returns, whatever the order in which the chunk tasks complete, the claims
\* of the chunks in chunk order and in their order within the chunk, without
\* those whose case-folded text an earlier claim has
C17_FirstSeenDedup ==
    (ExtractionOver /\ DuplicatedAcrossChunks /\ NoRuntimeError) =>
        /\ extraction.pc = "returned"
        /\ extraction.collected = FirstSeen(GatherResults)

HasValidQuery(claim) ==
    /\ "search_query" \in DOMAIN claim
    /\ claim.search_query # None
    /\ _validate_search_query(claim.search_query[1]) = None

\* C19: the query stage of a chunk that has claims makes at most 3 requests,
\* one after the first only with the regenerate instruction, and ends in one
\* of two ways: the chunk returns claims that each carry a search_query that
\* passes _validate_search_query, or the chunk fails with the RuntimeError of
\* a failed request or of a query still invalid after the third request
C19_ValidQueryOrChunkFails ==
    \A i \in Tasks :
        /\ tasks[i].attempt <= _SEARCH_QUERY_MAX_ATTEMPTS
        /\ tasks[i].attempt > 1 => tasks[i].query_payload = "retry"
        /\ tasks[i].pc = "done" =>
              \A k \in 1..Len(tasks[i].claims) : HasValidQuery(tasks[i].claims[k])
        /\ (tasks[i].pc = "failed" /\ tasks[i].attempt >= 1) => tasks[i].raised = "RuntimeError"

\* C20: once a chunk has failed, extract_claims does not return: it raises,
\* no claim is collected, the request is answered 502 and never reaches the
\* processing of claims, whatever the other chunks have returned
C20_AllOrNothing ==
    (\E i \in Tasks : tasks[i].pc = "failed") =>
        /\ extraction.pc \in {"gathering", "raised"}
        /\ extraction.collected = <<>>
        /\ analyze.pc \in {"extracting", "failed"}
        /\ analyze.claims = <<>>
        /\ analyze.pc = "failed" =>
              (extraction.pc = "raised" /\ extraction.raised # "" /\ analyze.status_code = 502)

\* one chunk failed by its request, every other chunk returned, and the
\* request was answered 502
C20_Witness ==
    /\ Len(tasks) >= 2
    /\ analyze.pc = "failed" /\ analyze.status_code = 502
    /\ \E i \in Tasks :
          /\ tasks[i].pc = "failed" /\ tasks[i].raised = "RuntimeError"
          /\ \A j \in Tasks \ {i} : tasks[j].pc = "done"

(***************************************************************************)
(* Claims about the processing of claims                                   *)
(***************************************************************************)

Started(i) == claim_tasks[i].pc # "created"

WarningsNaming(claim) ==
    {k \in 1..Len(processing.warnings) : processing.warnings[k].claim = Slice(claim.claim, 80)}

InFlightClaims == {i \in ClaimTasks : claim_tasks[i].pc \in {"fetching", "judging"}}

InQueue(analysis_id) == \E k \in DOMAIN queue : queue[k].analysis_id = analysis_id
InDeadLetters(analysis_id) == {k \in DOMAIN dlq : dlq[k].analysis_id = analysis_id}
Held(analysis_id) == worker.job # None /\ worker.job[1].analysis_id = analysis_id

C29_EndedRunIsTerminal ==
    \A k \in DOMAIN background :
        background[k].step \in {"raised", "returned"} =>
            analyses[background[k].analysis_id].status \in {"completed", "failed"}

\* C30: a POST for a url that already has an analysis and carries no force
\* answers with the id of one of them and adds no row; a POST with force adds
\* a row and answers with its id, which no analysis had.
C30_IdempotentPerUrl ==
    [][Len(responses') > Len(responses) =>
          LET response == responses'[Len(responses')]
              existing == {analysis_id \in DOMAIN analyses :
                              analyses[analysis_id].youtube_url = response.body.youtube_url}
              force == "force" \in DOMAIN response.body /\ response.body.force
          IN  IF existing # {} /\ ~force
              THEN response.analysis_id \in existing /\ Len(analyses') = Len(analyses)
              ELSE /\ response.analysis_id \notin DOMAIN analyses
                   /\ response.analysis_id \in DOMAIN analyses'
                   /\ Len(analyses') = Len(analyses) + 1]_vars

(***************************************************************************)
(* The semaphore of extract_claims                                         *)
(***************************************************************************)

\* C25: at every instant at most 10 chunks of an extract_claims call are
\* inside their LLM section (awaiting their extraction request or a query
\* request), however many chunks the transcript has.
C25_AtMostTenChunksInSection == Cardinality(InSection) <= ChunkSemaphore

\* ten chunks are in the section, one of them a chunk that had to wait for
\* the semaphore, one of them at a query request
C25_Witness ==
    /\ Cardinality(InSection) = ChunkSemaphore
    /\ \E i \in InSection : i > ChunkSemaphore
    /\ \E i \in InSection : tasks[i].pc = "query"

(***************************************************************************)
(* The policy pass: what it leaves alone, and the order of the evidence    *)
(***************************************************************************)

\* C33: the policy pass leaves the explanation unchanged: applied to any
\* ClaimAnalysis and evidence list it returns an object whose explanation is
\* that of its argument.
C33_ExplanationUnchanged ==
    PolicyApplied =>
        /\ call.ret.raised = ""
        /\ call.ret.value[1].explanation = call.args[1].explanation

\* the lists that hold the items of sources in another order
Reorderings(sources) ==
    {[i \in 1..Len(sources) |-> sources[order[i]]] :
        order \in {f \in [1..Len(sources) -> 1..Len(sources)] :
                      \A i, j \in 1..Len(sources) : f[i] = f[j] => i = j}}

\* C36: the evidence level and the study type derived from an evidence list,
\* which the final verdict, confidence and nuance are decided on, are the
\* same for every order of the same items.
C36_OrderOfEvidenceIrrelevant ==
    Inferred =>
        \A sources \in Reorderings(call.args[1]) :
            _infer_evidence_classification(sources) = call.ret

(***************************************************************************)
(* The expiry of the limiter's key                                         *)
(***************************************************************************)

\* C34: the reserved instants of a key only increase, across an expiry of the
\* key too: as long as the instant one interval after a reservation handed out
\* still lies in the future, the key is there and holds at least that
\* instant, so that no later caller is given an earlier one.
C34_ReservationsOutliveExpiry ==
    \A c \in Arrived :
        callers[c].allowed_at_ms + interval_ms > clock =>
            /\ StoredValue # None
            /\ StoredValue[1] >= callers[c].allowed_at_ms + interval_ms

(***************************************************************************)
(* The end of a generate call                                              *)
(***************************************************************************)

RequestsTo(route_index) == {k \in DOMAIN posts : posts[k] = route_index}

\* C35: every generate call terminates.  No route receives more than
\* max_retries + 1 requests, the call sends no more than
\* (max_fallbacks_per_stage + 1) * (max_retries + 1) requests, and a call that
\* was made returns or raises.
C35_GenerateTerminates ==
    /\ [](/\ \A route_index \in 0..MaxRoutes :
                Cardinality(RequestsTo(route_index)) <= llm.max_retries + 1
          /\ Len(posts) <= (llm.max_fallbacks_per_stage + 1) * (llm.max_retries + 1))
    /\ (generate.pc # "idle") ~> (generate.pc \in {"returned", "raised"})

\* a call that raised after every route had used all its requests
C35_Witness ==
    /\ generate.pc = "raised"
    /\ Len(generate.routes) >= 2
    /\ llm.max_retries >= 1
    /\ Len(posts) = Len(generate.routes) * (llm.max_retries + 1)


(***************************************************************************)
(* The rate limit of the gateway                                           *)
(***************************************************************************)

\* C39: a key rate:<identifier> that exists has an expiry, or the request
\* that made it is about to give it one: no failure leaves a key that stays
\* for good.
C39_EveryKeyExpires ==
    \A key \in Identifiers :
        (rate_keys[key] # None /\ rate_keys[key][1].ttl = NoExpiry) =>
            \E i \in DOMAIN limited : limited[i].identifier = key /\ limited[i].pc = "expire"

\* the requests of an identifier the limiter let through while its key was
\* the made-th one
Admitted(key, made) ==
    {i \in DOMAIN limited : /\ limited[i].identifier = key
                            /\ limited[i].key = made
                            /\ limited[i].pc = "returned"}

\* C40: while one key of an identifier lives, at most rate_limit_requests of
\* its requests are let through and each one counted beyond them is answered
\* 429; with rate_limit_requests <= 0 no request is counted or refused.
C40_AtMostLimitPerKey ==
    IF settings.rate_limit_requests <= 0
    THEN /\ \A key \in Identifiers : rate_keys[key] = None /\ keys_made[key] = 0
         /\ \A i \in DOMAIN limited : limited[i].pc = "returned"
    ELSE /\ \A key \in Identifiers : \A made \in 1..keys_made[key] :
                Cardinality(Admitted(key, made)) <= settings.rate_limit_requests
         /\ \A i \in DOMAIN limited :
                limited[i].count > settings.rate_limit_requests =>
                    limited[i].pc = "raised" /\ limited[i].status_code = 429

\* an identifier used up its first key, its next request was refused, and
\* after the expiry of the key a further one was let through
C40_Witness ==
    /\ settings.rate_limit_requests = 1
    /\ \E key \in Identifiers :
          /\ Cardinality(Admitted(key, 1)) = 1
          /\ Cardinality(Admitted(key, 2)) = 1
          /\ \E i \in DOMAIN limited :
                /\ limited[i].identifier = key /\ limited[i].key = 1
                /\ limited[i].status_code = 429
          /\ keys_made[key] = 2


(***************************************************************************)
(* The overlap of the cues                                                 *)
(***************************************************************************)

Parsed == call.fn = "parse_captions" /\ call.done

\* text begins with two or more words that are the last words of prev
BeginsWithTrailingWords(prev, text) ==
    \E size \in 2..Min(Len(prev), Len(text)) :
        SubSeq(prev, Len(prev) - size + 1, Len(prev)) = SubSeq(text, 1, size)

\* C32: in the output of parse_captions no segment begins with two or more
\* words that end the segment before it, no two segments in a row have the
\* same text, and a cue that only extends the last segment kept takes its
\* place.
C32_OverlapRemoved ==
    Parsed =>
        LET cues == call.args[1]
            output == call.ret
        IN  /\ \A i \in 2..Len(output) :
                  /\ ~BeginsWithTrailingWords(output[i - 1].text, output[i].text)
                  /\ output[i].text # output[i - 1].text
            /\ \A n \in 1..(Len(cues) - 1) :
                  LET before == parse_captions(SubSeq(cues, 1, n))
                      after == parse_captions(SubSeq(cues, 1, n + 1))
                      text == cues[n + 1]
                  IN  (/\ text # before[Len(before)].text
                       /\ StartsWith(text, before[Len(before)].text)) =>
                          after = [before EXCEPT ![Len(before)] =
                                      TranscriptionSegment(n + 1, n + 1, text)]


(***************************************************************************)
(* The cache of the research service                                       *)
(***************************************************************************)

\* the key of the request of a handler
KeyOf(handled) ==
    CacheKey(handled.request.query, "",
             [i \in DOMAIN handled.request.sources |->
                 Join(lower(strip(handled.request.sources[i])))],
             handled.request.max_results)

\* C31: a request whose providers did not fail is answered; when the same
\* request was answered from the providers at most ttl_seconds before, the
\* answer is cached = true with the results of that answer; and the cache
\* holds answers of answered requests only.
C31_RepeatsAnsweredFromCache ==
    /\ \A i \in DOMAIN research :
          (research[i].pc # "searching" /\ research[i].failed_provider = "") =>
              /\ research[i].status_code = 200
              /\ \A j \in 1..(i - 1) :
                    (/\ KeyOf(research[j]) = KeyOf(research[i])
                     /\ research[j].status_code = 200
                     /\ ~research[j].response[1].cached
                     /\ research[i].at <= research[j].at + cache.ttl_seconds) =>
                        /\ research[i].response[1].cached
                        /\ research[i].response[1].results = research[j].response[1].results
    /\ \A key \in DOMAIN cache._store :
          \E i \in DOMAIN research :
              KeyOf(research[i]) = key /\ research[i].status_code = 200


(***************************************************************************)
(* The rows of the claims                                                  *)
(***************************************************************************)

\* what a call a run awaits fails with
CallFailures == {"HTTPStatusError", "PostgresError"}

\* the rows the run-th run of an analysis stored
RowsOfRun(analysis_id, run) ==
    {i \in ClaimRowsOf(analysis_id) : claim_rows[i].run = run}

====
